---- MODULE Spec2Model ----
(***************************************************************************)
(* Envelope ledger of Ea_OS: the append-only log (ledger/core/src/lib.rs), *)
(* the replay validator, the brainstem orchestrator                        *)
(* (ledger/core/src/brainstem.rs) and the transports                       *)
(* (ledger/transport/src/lib.rs).                                          *)
(*                                                                         *)
(* Hashes and signatures are idealised: a hash is the tagged tuple of what *)
(* it was computed over (so it is collision free), a signature is the      *)
(* tagged pair of the signing key and the signed message (so it is         *)
(* unforgeable).  Option<T> is a sequence of length 0 or 1.                *)
(***************************************************************************)
EXTENDS Naturals, Sequences, FiniteSets, TLC

VARIABLES
    sys,        \* which program is running
    log,        \* AppendLog.entries of that program
    res,        \* outcome of the last operation
    store,      \* BrainstemLedger.store: the CAS directory, digest -> bytes
    alerts,     \* BrainstemLedger.alerts
    index,      \* BrainstemLedger.index: [by_channel, by_domain]
    cp_last_len,\* BrainstemLedger.checkpoint_writer.last_len
    cfg,        \* what the transport was constructed with
    sent,       \* every envelope the broadcast channel accepted, in order
    rxs,        \* the receivers handed out by subscribe()
    ring,       \* MailboxTransport.buffer
    pending,    \* the request a caller holds back for a retry
    client,     \* the QuicGrpcAdapter a caller connected, when there is one
    calls,      \* per caller thread, the append it is in the middle of
    subs        \* per subscribe() call, how far it has got

(***************************************************************************)
(* Bounds                                                                  *)
(***************************************************************************)
\* longest log explored by the programs that read, replay and query
MaxLog == 4
\* log length up to which the programs "log" and "brainstem" are offered the
\* full input set; longer logs are extended with the plain inputs only, and
\* "brainstem" stops one envelope later
MaxRich == 2

None == <<>>
Some(x) == <<x>>

Last(s) == s[Len(s)]

(***************************************************************************)
(* Hash and signature kit (crate ledger_spec)                              *)
(***************************************************************************)
\* [0u8; 32]: the hash of nothing the model builds
ZeroHash == <<"zero">>

hash_body(body) == <<"ea-ledger:body", body.payload, body.payload_type>>

hash_attestation_statement(statement) == <<"ea-ledger:att-stmt", statement>>

\* header, body and attestations; the signature list is excluded
envelope_hash(env) == <<"ea-ledger:env", env.header, env.body, env.attestations>>

\* Ed25519
Sign(key, msg) == <<"sig", key, msg>>
Verify(signer, msg, signature) == signature = Sign(signer, msg)

(***************************************************************************)
(* Channel registry                                                        *)
(***************************************************************************)
Keys == {"K1", "K2", "K3"}

Registry ==
    [c \in {"c1", "c2"} |->
        IF c = "c1"
        THEN [min_signers |-> 1, allowed_signers |-> {"K1"},
              require_attestations |-> FALSE, enforce_timestamp_ordering |-> TRUE]
        ELSE [min_signers |-> 2, allowed_signers |-> {"K1", "K2"},
              require_attestations |-> TRUE, enforce_timestamp_ordering |-> FALSE]]

\* ChannelState::default()
ChannelState_default == [last_hash |-> None, last_timestamp |-> None]

(***************************************************************************)
(* Envelope validator (ledger_spec::validate_envelope)                     *)
(***************************************************************************)
Ok(state) == [ok |-> TRUE, err |-> "Ok", state |-> state]
Err(e) == [ok |-> FALSE, err |-> e, state |-> ChannelState_default]

AttestationOk(att) ==
    /\ hash_attestation_statement(att.statement) = att.statement_hash
    /\ Verify(att.issuer, att.statement_hash, att.signature)

\* the error of the first signature that is rejected, "Ok" when none is
RECURSIVE SignatureError(_, _, _, _)
SignatureError(sigs, i, policy, h) ==
    IF i > Len(sigs) THEN "Ok"
    ELSE IF sigs[i].signer \notin policy.allowed_signers THEN "UntrustedSigner"
    ELSE IF ~Verify(sigs[i].signer, h, sigs[i].signature) THEN "InsufficientSigners"
    ELSE SignatureError(sigs, i + 1, policy, h)

validate_envelope(env, registry, prior) ==
    LET h == envelope_hash(env) IN
    IF hash_body(env.body) # env.header.body_hash THEN Err("BodyHashMismatch")
    ELSE IF \E i \in 1..Len(env.attestations) : ~AttestationOk(env.attestations[i])
    THEN Err("AttestationInvalid")
    ELSE IF env.header.channel \notin DOMAIN registry THEN Err("UnknownChannel")
    ELSE
    LET policy == registry[env.header.channel]
        sigErr == SignatureError(env.signatures, 1, policy, h)
        signers == {env.signatures[i].signer : i \in 1..Len(env.signatures)}
    IN
    IF env.header.prev # prior.last_hash THEN Err("ChainBroken")
    ELSE IF /\ policy.enforce_timestamp_ordering
            /\ prior.last_timestamp # None
            /\ env.header.timestamp < prior.last_timestamp[1]
    THEN Err("TimestampRegression")
    ELSE IF sigErr # "Ok" THEN Err(sigErr)
    ELSE IF env.signatures = <<>> \/ Cardinality(signers) < policy.min_signers
    THEN Err("InsufficientSigners")
    ELSE IF policy.require_attestations /\ env.attestations = <<>>
    THEN Err("AttestationRequired")
    ELSE Ok([last_hash |-> Some(h), last_timestamp |-> Some(env.header.timestamp)])

(***************************************************************************)
(* Producers: the envelopes submitted to append                            *)
(***************************************************************************)
\* JSON payloads: an object is its set of <<key, value>> members
\* and a member is <<key, type, value, bytes of "key":value>>
Payload(members) == [is_object |-> TRUE, members |-> members]
PayloadAlpha == Payload({<<"n", "number", "1", 5>>, <<"domain", "string", "alpha", 16>>})
PayloadBeta == Payload({<<"n", "number", "2", 5>>, <<"domain", "string", "beta", 15>>})
PayloadDyn == Payload({<<"dynamic_code", "bool", "true", 19>>})
PayloadShm == Payload({<<"shared_memory", "number", "1", 17>>})
PayloadBig == Payload({<<"blob", "string", "0123456789abcdef0123456789abcdef", 41>>})
PayloadDomNum == Payload({<<"domain", "number", "7", 10>>})
\* the JSON string "hello"
PayloadScalar == [is_object |-> FALSE, members |-> {<<"", "string", "hello", 7>>}]

Timestamps == {1, 2}

\* attestation statements (AttestationKind)
RuntimeStatement(id) == [kind |-> "Runtime", runtime_id |-> id, data |-> "policy-hash"]

\* signing::sign_attestation over an attestation built for the statement
SignedAttestation(statement, key) ==
    [issuer |-> key, statement |-> statement,
     statement_hash |-> hash_attestation_statement(statement),
     signature |-> Sign(key, hash_attestation_statement(statement))]

GoodAtt == SignedAttestation(RuntimeStatement("enclave-A"), "K3")

\* AttestationKind::Build { artifact_hash, builder }
BuildStatement(builder) == [kind |-> "Build", runtime_id |-> builder, data |-> "artifact-hash"]

\* ways in which a submitted envelope departs from a well-formed one
Defects ==
    {"none", "bad_body_hash", "prev_zero", "unknown_channel", "signed_as_submitted",
     "no_sig", "one_sig", "dup_sig", "untrusted_sig", "forged_sig",
     "no_att", "extra_att", "att_bad_hash", "att_bad_sig"}

Shape(ch, p, ts, prev, defect) ==
    [ch |-> ch, p |-> p, ts |-> ts, prev |-> prev, defect |-> defect]

ShapesOver(payloads, defects) ==
    {Shape(ch, p, ts, prev, d) :
        ch \in {"c1", "c2"}, p \in payloads, ts \in Timestamps,
        prev \in {"none", "tail"}, d \in defects}

TailHash(entries) == IF entries = <<>> THEN None ELSE Some(envelope_hash(Last(entries)))

ShapeSigners(s) ==
    CASE s.defect = "no_sig" -> <<>>
      [] s.defect = "one_sig" -> <<"K1">>
      [] s.defect = "dup_sig" -> <<"K1", "K1">>
      [] s.defect = "untrusted_sig" -> <<"K3">>
      [] OTHER -> IF s.ch = "c1" THEN <<"K1">> ELSE <<"K1", "K2">>

ShapeAttestations(s) ==
    CASE s.defect = "no_att" -> <<>>
      [] s.defect = "extra_att" -> <<GoodAtt>>
      [] s.defect = "att_bad_hash" -> <<[GoodAtt EXCEPT !.statement_hash = ZeroHash]>>
      [] s.defect = "att_bad_sig" -> <<[GoodAtt EXCEPT !.signature = Sign("K3", ZeroHash)]>>
      [] OTHER -> IF s.ch = "c1" THEN <<>> ELSE <<GoodAtt>>

\* The producer's envelope for a shape, given the log it is sent to.  It is
\* signed as signing::sign_envelope does, over the hash of the envelope with
\* the prev the log will store; with "signed_as_submitted" over the hash of
\* the envelope exactly as submitted.
BuildTyped(s, entries, payload_type) ==
    LET body == [payload |-> s.p, payload_type |-> payload_type]
        prev == CASE s.defect = "prev_zero" -> Some(ZeroHash)
                  [] s.prev = "none" /\ s.defect # "prev_zero" -> None
                  [] OTHER -> TailHash(entries)
        header == [channel |-> IF s.defect = "unknown_channel" THEN "cx" ELSE s.ch,
                   version |-> 1,
                   prev |-> prev,
                   body_hash |-> IF s.defect = "bad_body_hash" THEN ZeroHash
                                 ELSE hash_body(body),
                   timestamp |-> s.ts]
        atts == ShapeAttestations(s)
        unsigned == [header |-> header, body |-> body,
                     signatures |-> <<>>, attestations |-> atts]
        stored == IF prev = None /\ s.defect # "signed_as_submitted"
                  THEN [unsigned EXCEPT !.header.prev = TailHash(entries)]
                  ELSE unsigned
        msg == IF s.defect = "forged_sig" THEN ZeroHash ELSE envelope_hash(stored)
        signers == ShapeSigners(s)
    IN [unsigned EXCEPT !.signatures =
            [i \in 1..Len(signers) |->
                [signer |-> signers[i], signature |-> Sign(signers[i], msg)]]]

\* the producer of the tests: payload_type Some("test")
Build(s, entries) == BuildTyped(s, entries, Some("test"))

(***************************************************************************)
(* AppendLog                                                               *)
(***************************************************************************)
\* AppendLog::append letting an envelope short of signers through
AppendLog_append_short_of_signers(entries, env0, registry) ==
    LET prev_hash == IF entries = <<>> THEN None ELSE Some(envelope_hash(Last(entries)))
        env == IF env0.header.prev = None
               THEN [env0 EXCEPT !.header.prev = prev_hash]
               ELSE env0
        prev_state == [last_hash |-> prev_hash,
                       last_timestamp |-> IF entries = <<>> THEN None
                                          ELSE Some(Last(entries).header.timestamp)]
        v == validate_envelope(env, registry, prev_state)
    IN IF v.ok \/ v.err = "InsufficientSigners"
       THEN [ok |-> TRUE, err |-> "Ok", entries |-> Append(entries, env)]
       ELSE [ok |-> FALSE, err |-> v.err, entries |-> entries]

\* AppendLog::append storing the envelope as submitted, prev not filled in
AppendLog_append_unfilled(entries, env0, registry) ==
    LET prev_hash == IF entries = <<>> THEN None ELSE Some(envelope_hash(Last(entries)))
        env == IF env0.header.prev = None
               THEN [env0 EXCEPT !.header.prev = prev_hash]
               ELSE env0
        prev_state == [last_hash |-> prev_hash,
                       last_timestamp |-> IF entries = <<>> THEN None
                                          ELSE Some(Last(entries).header.timestamp)]
        v == validate_envelope(env, registry, prev_state)
    IN IF v.ok
       THEN [ok |-> TRUE, err |-> "Ok", entries |-> Append(entries, env0)]
       ELSE [ok |-> FALSE, err |-> v.err, entries |-> entries]

\* AppendLog::append pushing before it validates
AppendLog_append_push_first(entries, env0, registry) ==
    LET prev_hash == IF entries = <<>> THEN None ELSE Some(envelope_hash(Last(entries)))
        env == IF env0.header.prev = None
               THEN [env0 EXCEPT !.header.prev = prev_hash]
               ELSE env0
        prev_state == [last_hash |-> prev_hash,
                       last_timestamp |-> IF entries = <<>> THEN None
                                          ELSE Some(Last(entries).header.timestamp)]
        v == validate_envelope(env, registry, prev_state)
    IN [ok |-> v.ok, err |-> v.err, entries |-> Append(entries, env)]

\* AppendLog::append inserting at the front
AppendLog_append_front(entries, env0, registry) ==
    LET prev_hash == IF entries = <<>> THEN None ELSE Some(envelope_hash(Last(entries)))
        env == IF env0.header.prev = None
               THEN [env0 EXCEPT !.header.prev = prev_hash]
               ELSE env0
        prev_state == [last_hash |-> prev_hash,
                       last_timestamp |-> IF entries = <<>> THEN None
                                          ELSE Some(Last(entries).header.timestamp)]
        v == validate_envelope(env, registry, prev_state)
    IN IF v.ok
       THEN [ok |-> TRUE, err |-> "Ok", entries |-> <<env>> \o entries]
       ELSE [ok |-> FALSE, err |-> v.err, entries |-> entries]

\* AppendLog::append: [ok, err, entries]
AppendLog_append(entries, env0, registry) ==
    LET prev_hash == IF entries = <<>> THEN None ELSE Some(envelope_hash(Last(entries)))
        env == IF env0.header.prev = None
               THEN [env0 EXCEPT !.header.prev = prev_hash]
               ELSE env0
        prev_state == [last_hash |-> prev_hash,
                       last_timestamp |-> IF entries = <<>> THEN None
                                          ELSE Some(Last(entries).header.timestamp)]
        v == validate_envelope(env, registry, prev_state)
    IN IF v.ok
       THEN [ok |-> TRUE, err |-> "Ok", entries |-> Append(entries, env)]
       ELSE [ok |-> FALSE, err |-> v.err, entries |-> entries]

\* AppendLog::read: entries.iter().skip(offset).take(limit)
\* variant: the upper end is taken inclusively
AppendLog_read_inclusive(entries, offset, limit) ==
    LET n == IF offset >= Len(entries) THEN 0
             ELSE IF Len(entries) - offset < limit + 1 THEN Len(entries) - offset
             ELSE limit + 1
    IN [i \in 1..n |-> entries[offset + i]]

AppendLog_read(entries, offset, limit) ==
    LET n == IF offset >= Len(entries) THEN 0
             ELSE IF Len(entries) - offset < limit THEN Len(entries) - offset
             ELSE limit
    IN [i \in 1..n |-> entries[offset + i]]

AppendLog_len(entries) == Len(entries)

(***************************************************************************)
(* ReplayValidator                                                         *)
(***************************************************************************)
\* ReplayValidator::validate_sequence: "Ok" or the first validation error
RECURSIVE validate_from(_, _, _, _)
validate_from(seq, i, state, registry) ==
    IF i > Len(seq) THEN "Ok"
    ELSE LET v == validate_envelope(seq[i], registry, state)
         IN IF v.ok THEN validate_from(seq, i + 1, v.state, registry) ELSE v.err

\* validate_sequence validating every envelope against the empty state
RECURSIVE validate_from_unthreaded(_, _, _)
validate_from_unthreaded(seq, i, registry) ==
    IF i > Len(seq) THEN "Ok"
    ELSE LET v == validate_envelope(seq[i], registry, ChannelState_default)
         IN IF v.ok THEN validate_from_unthreaded(seq, i + 1, registry) ELSE v.err

validate_sequence_unthreaded(seq, registry) == validate_from_unthreaded(seq, 1, registry)

\* validate_sequence stopping after the first envelope
validate_sequence_first_only(seq, registry) ==
    IF seq = <<>> THEN "Ok"
    ELSE LET v == validate_envelope(seq[1], registry, ChannelState_default)
         IN IF v.ok THEN "Ok" ELSE v.err

validate_sequence(seq, registry) == validate_from(seq, 1, ChannelState_default, registry)

(***************************************************************************)
(* The programs "log" and "reader": an AppendLog used directly.  "log"     *)
(* appends and replays, "reader" appends and reads.                        *)
(***************************************************************************)
bvars == <<store, alerts, index, cp_last_len>>

\* the callers' side of a transport
xvars == <<client, calls, subs>>

tvars == <<cfg, sent, rxs, ring, pending, xvars>>

vars == <<sys, log, res, store, alerts, index, cp_last_len, cfg, sent, rxs, ring, pending,
          client, calls, subs>>

NoRes == [op |-> "init", outcome |-> "Ok", out |-> <<>>]

\* the orchestrator's own state after BrainstemLedger::new
InitB ==
    /\ store = {}
    /\ alerts = <<>>
    /\ index = [by_channel |-> <<>>, by_domain |-> <<>>]
    /\ cp_last_len = 0

\* no transport is constructed
NoCfg == [queue_depth |-> 0, attestation |-> None, slots |-> 0, slot_bytes |-> 0]

\* no caller is connected, in a call or subscribing
InitX0 == client = None /\ calls = <<>> /\ subs = <<>>

InitT0 ==
    cfg = NoCfg /\ sent = <<>> /\ rxs = <<>> /\ ring = <<>> /\ pending = None /\ InitX0

PlainShapes == ShapesOver({PayloadAlpha}, {"none", "prev_zero"})

RichShapes == ShapesOver({PayloadAlpha}, Defects)

LogShapes(entries) ==
    IF sys = "log" /\ Len(entries) < MaxRich THEN RichShapes ELSE PlainShapes

\* the longest log of the running program
LenCap == IF sys = "brainstem" THEN MaxRich + 1 ELSE MaxLog

\* log.append(env, &registry)
LogAppend ==
    /\ sys \in {"log", "reader", "writer"}
    /\ Len(log) < LenCap
    /\ \E s \in LogShapes(log) :
       \E r \in {AppendLog_append(log, Build(s, log), Registry)} :
        /\ log' = r.entries
        /\ res' = [op |-> "append", outcome |-> r.err, out |-> <<>>]
    /\ UNCHANGED <<sys, bvars, tvars>>

\* log.read(offset, limit)
LogRead ==
    /\ sys = "reader"
    /\ \E offset \in 0..(MaxLog + 1), limit \in 0..2 :
        res' = [op |-> "read", outcome |-> "Ok",
                out |-> <<offset, limit, AppendLog_read(log, offset, limit)>>]
    /\ UNCHANGED <<sys, log, bvars, tvars>>

\* A copy of the sequence with the payload of entry `at` replaced, body_hash kept
Tampered(seq, at, p) == [seq EXCEPT ![at].body.payload = p]

\* ReplayValidator::new(registry).validate_sequence(&log.read(0, log.len()))
LogReplay ==
    /\ sys = "log"
    /\ res' = [op |-> "replay",
               outcome |-> validate_sequence(AppendLog_read(log, 0, AppendLog_len(log)),
                                             Registry),
               out |-> <<>>]
    /\ UNCHANGED <<sys, log, bvars, tvars>>

\* the same on a sequence one of whose bodies was changed after the fact
LogReplayTampered ==
    /\ sys = "log"
    /\ \E at \in 1..Len(log), p \in {PayloadAlpha, PayloadBeta} :
        /\ p # log[at].body.payload
        /\ res' = [op |-> "replay_tampered",
                   outcome |-> validate_sequence(
                       Tampered(AppendLog_read(log, 0, AppendLog_len(log)), at, p),
                       Registry),
                   out |-> <<at>>]
    /\ UNCHANGED <<sys, log, bvars, tvars>>

InitLog == sys = "log" /\ log = <<>> /\ res = NoRes /\ InitB /\ InitT0

InitReader == sys = "reader" /\ log = <<>> /\ res = NoRes /\ InitB /\ InitT0

NextLog == LogAppend \/ LogReplay \/ LogReplayTampered

NextReader == LogAppend \/ LogRead

SpecLog == InitLog /\ [][NextLog]_vars

SpecReader == InitReader /\ [][NextReader]_vars

\* both uses of a bare AppendLog
SpecAppendLog == (InitLog \/ InitReader) /\ [][NextLog \/ LogRead]_vars

(***************************************************************************)
(* Merkle tree over the log                                                *)
(***************************************************************************)
\* Hasher over b"ea-ledger:merkle", left, right
H_merkle(left, right) == <<"ea-ledger:merkle", left, right>>

Leaves(entries) == [i \in 1..Len(entries) |-> envelope_hash(entries[i])]

\* variant: an unpaired last node is carried up as it is
NextLevel_promote_unpaired(leaves) ==
    [k \in 1..((Len(leaves) + 1) \div 2) |->
        IF 2 * k <= Len(leaves)
        THEN H_merkle(leaves[2 * k - 1], leaves[2 * k])
        ELSE leaves[2 * k - 1]]

\* one pass of leaves.chunks(2): an odd last node is paired with itself
NextLevel(leaves) ==
    [k \in 1..((Len(leaves) + 1) \div 2) |->
        H_merkle(leaves[2 * k - 1],
                 IF 2 * k <= Len(leaves) THEN leaves[2 * k] ELSE leaves[2 * k - 1])]

RECURSIVE RootOf(_)
RootOf(leaves) == IF Len(leaves) = 1 THEN leaves[1] ELSE RootOf(NextLevel(leaves))

\* AppendLog::merkle_root
AppendLog_merkle_root(entries) ==
    IF entries = <<>> THEN None ELSE Some(RootOf(Leaves(entries)))

\* variant: an unpaired last node contributes no sibling
RECURSIVE ProofFrom_skip_unpaired(_, _)
ProofFrom_skip_unpaired(leaves, idx) ==
    IF Len(leaves) <= 1 THEN <<>>
    ELSE (IF idx % 2 = 0
          THEN IF idx + 1 < Len(leaves) THEN <<leaves[idx + 2]>> ELSE <<>>
          ELSE <<leaves[idx]>>)
         \o ProofFrom_skip_unpaired(NextLevel(leaves), idx \div 2)

\* the loop of merkle_proof_for; idx counts from 0
RECURSIVE ProofFrom(_, _)
ProofFrom(leaves, idx) ==
    IF Len(leaves) <= 1 THEN <<>>
    ELSE LET sib == IF idx % 2 = 0
                    THEN IF idx + 1 < Len(leaves) THEN leaves[idx + 2] ELSE leaves[idx + 1]
                    ELSE leaves[idx]
         IN <<sib>> \o ProofFrom(NextLevel(leaves), idx \div 2)

\* merkle_proof_for(log, index)
merkle_proof_for(entries, idx) ==
    IF entries = <<>> THEN <<>> ELSE ProofFrom(Leaves(entries), idx)

(***************************************************************************)
(* Checkpoint writer                                                       *)
(***************************************************************************)
\* variant: the log must have advanced by more than the interval
maybe_checkpoint_strict(last_len, entries, interval) ==
    IF Len(entries) > last_len + interval /\ AppendLog_merkle_root(entries) # None
    THEN [cp |-> Some([length |-> Len(entries), root |-> AppendLog_merkle_root(entries)[1]]),
          last_len |-> Len(entries)]
    ELSE [cp |-> None, last_len |-> last_len]

\* CheckpointWriter::maybe_checkpoint: [cp, last_len]
\* maybe_checkpoint taking the root of the log without its newest entry
maybe_checkpoint_prior_root(last_len, entries, interval) ==
    LET prior == SubSeq(entries, 1, Len(entries) - 1)
    IN IF Len(entries) >= last_len + interval /\ AppendLog_merkle_root(prior) # None
       THEN [cp |-> Some([length |-> Len(entries), root |-> AppendLog_merkle_root(prior)[1]]),
             last_len |-> Len(entries)]
       ELSE [cp |-> None, last_len |-> last_len]

maybe_checkpoint(last_len, entries, interval) ==
    IF Len(entries) >= last_len + interval /\ AppendLog_merkle_root(entries) # None
    THEN [cp |-> Some([length |-> Len(entries), root |-> AppendLog_merkle_root(entries)[1]]),
          last_len |-> Len(entries)]
    ELSE [cp |-> None, last_len |-> last_len]

\* The program "writer": a CheckpointWriter over an AppendLog
\* largest interval asked for
MaxInterval == 3

\* writer.maybe_checkpoint(&log, interval)
WriterCheckpoint ==
    /\ sys = "writer"
    /\ \E interval \in 0..MaxInterval :
       \E r \in {maybe_checkpoint(cp_last_len, log, interval)} :
        /\ cp_last_len' = r.last_len
        /\ res' = [op |-> "checkpoint", outcome |-> "Ok", out |-> <<interval, r.cp, cp_last_len>>]
    /\ UNCHANGED <<sys, log, store, alerts, index, tvars>>

InitWriter == sys = "writer" /\ log = <<>> /\ res = NoRes /\ InitB /\ InitT0

NextWriter == LogAppend \/ WriterCheckpoint

SpecWriter == InitWriter /\ [][NextWriter]_vars

(***************************************************************************)
(* Content-addressable store                                               *)
(***************************************************************************)
\* bytes.len() of serde_json::to_vec(payload)
ByteLen(payload) ==
    LET RECURSIVE Sum(_)
        Sum(ms) == IF ms = {} THEN 0
                   ELSE LET m == CHOOSE x \in ms : TRUE
                        IN m[4] + Sum(ms \ {m})
    IN IF payload.is_object
       THEN IF payload.members = {} THEN 2
            ELSE Sum(payload.members) + Cardinality(payload.members) + 1
       ELSE Sum(payload.members)

\* serde_json::to_vec(payload)
ToVec(payload) == <<"json", payload>>

\* Hasher over b"ea-ledger:payload", bytes
hash_payload(bytes) == <<"ea-ledger:payload", bytes>>

\* configured ceiling of the store
MaxPayloadBytes == 32

\* variant: the file is written whether or not it exists
CAS_put_rewrite(files, payload, max_bytes, io_ok) ==
    LET bytes == ToVec(payload)
        hash == hash_payload(bytes)
    IN IF ByteLen(payload) > max_bytes
       THEN [err |-> "InvariantViolation", files |-> files, hash |-> None, writes |-> 0]
       ELSE IF ~io_ok
       THEN [err |-> "Storage", files |-> files, hash |-> None, writes |-> 0]
       ELSE [err |-> "Ok", files |-> files \cup {<<hash, bytes>>}, hash |-> Some(hash),
             writes |-> 1]

\* ContentAddressableStore::put on the directory `files`; io_ok: fs::write succeeds
\* put without the size test
CAS_put_unlimited(files, payload, max_bytes, io_ok) ==
    LET bytes == ToVec(payload)
        hash == hash_payload(bytes)
    IN IF \E f \in files : f[1] = hash
       THEN [err |-> "Ok", files |-> files, hash |-> Some(hash), writes |-> 0]
       ELSE IF ~io_ok
       THEN [err |-> "Storage", files |-> files, hash |-> None, writes |-> 0]
       ELSE [err |-> "Ok", files |-> files \cup {<<hash, bytes>>}, hash |-> Some(hash),
             writes |-> 1]

CAS_put(files, payload, max_bytes, io_ok) ==
    LET bytes == ToVec(payload)
        hash == hash_payload(bytes)
    IN IF ByteLen(payload) > max_bytes
       THEN [err |-> "InvariantViolation", files |-> files, hash |-> None, writes |-> 0]
       ELSE IF \E f \in files : f[1] = hash
       THEN [err |-> "Ok", files |-> files, hash |-> Some(hash), writes |-> 0]
       ELSE IF ~io_ok
       THEN [err |-> "Storage", files |-> files, hash |-> None, writes |-> 0]
       ELSE [err |-> "Ok", files |-> files \cup {<<hash, bytes>>}, hash |-> Some(hash),
             writes |-> 1]

\* ContentAddressableStore::get: Ok(None) when no file is named by the hash
CAS_get(files, hash) ==
    IF ~\E f \in files : f[1] = hash
    THEN None
    ELSE Some((CHOOSE f \in files : f[1] = hash)[2])

(***************************************************************************)
(* Domain index                                                            *)
(***************************************************************************)
\* BTreeMap entry(key).or_default().push(idx)
PushAt(map, key, idx) ==
    IF key \in DOMAIN map
    THEN [map EXCEPT ![key] = Append(@, idx)]
    ELSE map @@ (key :> <<idx>>)

\* payload.get("domain").and_then(|v| v.as_str())
PayloadDomain(payload) ==
    IF /\ payload.is_object
       /\ \E m \in payload.members : m[1] = "domain" /\ m[2] = "string"
    THEN Some((CHOOSE m \in payload.members : m[1] = "domain")[3])
    ELSE None

\* variant: the domain is indexed whatever its JSON type
index_envelope_any_type(ix, idx, env) ==
    [by_channel |-> PushAt(ix.by_channel, env.header.channel, idx),
     by_domain |-> IF /\ env.body.payload.is_object
                      /\ \E m \in env.body.payload.members : m[1] = "domain"
                   THEN PushAt(ix.by_domain,
                               (CHOOSE m \in env.body.payload.members : m[1] = "domain")[3],
                               idx)
                   ELSE ix.by_domain]

\* DomainIndex::index_envelope
index_envelope(ix, idx, env) ==
    [by_channel |-> PushAt(ix.by_channel, env.header.channel, idx),
     by_domain |-> IF PayloadDomain(env.body.payload) # None
                   THEN PushAt(ix.by_domain, PayloadDomain(env.body.payload)[1], idx)
                   ELSE ix.by_domain]

offsets_for_channel(ix, channel) ==
    IF channel \in DOMAIN ix.by_channel THEN ix.by_channel[channel] ELSE <<>>

offsets_for_domain(ix, domain) ==
    IF domain \in DOMAIN ix.by_domain THEN ix.by_domain[domain] ELSE <<>>

(***************************************************************************)
(* Brainstem orchestrator                                                  *)
(***************************************************************************)
\* variant: only dynamic_code is looked for
enforce_invariants_dynamic_only(payload) ==
    IF payload.is_object /\ \E m \in payload.members : m[1] = "dynamic_code"
    THEN "dynamic code payloads are not permitted"
    ELSE "Ok"

\* enforce_invariants: "Ok" or the violation
enforce_invariants(payload) ==
    IF payload.is_object /\ \E m \in payload.members : m[1] = "dynamic_code"
    THEN "dynamic code payloads are not permitted"
    ELSE IF payload.is_object /\ \E m \in payload.members : m[1] = "shared_memory"
    THEN "shared memory references are not permitted"
    ELSE "Ok"

\* BrainstemLedger::validation_error
validation_error(als, err) ==
    Append(als, [message |-> <<"validation failure", err>>, error |-> Some(err)])

\* the state of the orchestrator
Ledger == [log |-> log, store |-> store, alerts |-> alerts, index |-> index,
           cp_last_len |-> cp_last_len]

Failed(l, kind, err) ==
    [ledger |-> l, outcome |-> kind, detail |-> err, receipt |-> None, checkpoint |-> None]

\* append with the CAS put ahead of the validator
BrainstemLedger_append_put_first(l, env0, registry, max_bytes, io_ok) ==
    LET env_hash == envelope_hash(env0)
        last == IF AppendLog_len(l.log) = 0 THEN <<>>
                ELSE AppendLog_read(l.log, AppendLog_len(l.log) - 1, 1)
        prev_hash == IF last = <<>> THEN None ELSE Some(envelope_hash(last[1]))
        prev_state == [last_hash |-> prev_hash,
                       last_timestamp |-> IF last = <<>> THEN None
                                          ELSE Some(last[1].header.timestamp)]
        env == IF env0.header.prev = None
               THEN [env0 EXCEPT !.header.prev = prev_hash]
               ELSE env0
        v == validate_envelope(env, registry, prev_state)
        put == CAS_put(l.store, env.body.payload, max_bytes, io_ok)
        stored == [l EXCEPT !.store = put.files]
        app == AppendLog_append(l.log, env, registry)
        idx == AppendLog_len(app.entries) - 1
        root == AppendLog_merkle_root(app.entries)[1]
        proof == merkle_proof_for(app.entries, idx)
        cp == maybe_checkpoint(l.cp_last_len, app.entries, 1)
    IN
    IF enforce_invariants(env0.body.payload) # "Ok"
    THEN Failed(l, "InvariantViolation", enforce_invariants(env0.body.payload))
    ELSE IF hash_body(env0.body) # env0.header.body_hash
    THEN Failed([l EXCEPT !.alerts = validation_error(l.alerts, "BodyHashMismatch")],
                "Validation", "BodyHashMismatch")
    ELSE IF \E i \in 1..Len(env0.attestations) :
               hash_attestation_statement(env0.attestations[i].statement)
                   # env0.attestations[i].statement_hash
    THEN Failed([l EXCEPT !.alerts = validation_error(l.alerts, "AttestationInvalid")],
                "Validation", "AttestationInvalid")
    ELSE IF put.err # "Ok" THEN Failed(l, put.err, "store")
    ELSE IF ~v.ok THEN Failed(stored, "Validation", v.err)
    ELSE IF ~app.ok THEN Failed(stored, "Validation", app.err)
    ELSE [ledger |-> [stored EXCEPT !.log = app.entries,
                                    !.index = index_envelope(l.index, idx, env),
                                    !.cp_last_len = cp.last_len],
          outcome |-> "Ok", detail |-> "Ok",
          receipt |-> Some([index |-> idx, envelope_hash |-> env_hash,
                            merkle_root |-> root, merkle_proof |-> proof]),
          checkpoint |-> cp.cp]

\* append with the body-hash self-check ahead of the reserved-key invariants
BrainstemLedger_append_hash_first(l, env0, registry, max_bytes, io_ok) ==
    LET env_hash == envelope_hash(env0)
        last == IF AppendLog_len(l.log) = 0 THEN <<>>
                ELSE AppendLog_read(l.log, AppendLog_len(l.log) - 1, 1)
        prev_hash == IF last = <<>> THEN None ELSE Some(envelope_hash(last[1]))
        prev_state == [last_hash |-> prev_hash,
                       last_timestamp |-> IF last = <<>> THEN None
                                          ELSE Some(last[1].header.timestamp)]
        env == IF env0.header.prev = None
               THEN [env0 EXCEPT !.header.prev = prev_hash]
               ELSE env0
        v == validate_envelope(env, registry, prev_state)
        put == CAS_put(l.store, env.body.payload, max_bytes, io_ok)
        stored == [l EXCEPT !.store = put.files]
        app == AppendLog_append(l.log, env, registry)
        idx == AppendLog_len(app.entries) - 1
        root == AppendLog_merkle_root(app.entries)[1]
        proof == merkle_proof_for(app.entries, idx)
        cp == maybe_checkpoint(l.cp_last_len, app.entries, 1)
    IN
    IF hash_body(env0.body) # env0.header.body_hash
    THEN Failed([l EXCEPT !.alerts = validation_error(l.alerts, "BodyHashMismatch")],
                "Validation", "BodyHashMismatch")
    ELSE IF enforce_invariants(env0.body.payload) # "Ok"
    THEN Failed(l, "InvariantViolation", enforce_invariants(env0.body.payload))
    ELSE IF \E i \in 1..Len(env0.attestations) :
               hash_attestation_statement(env0.attestations[i].statement)
                   # env0.attestations[i].statement_hash
    THEN Failed([l EXCEPT !.alerts = validation_error(l.alerts, "AttestationInvalid")],
                "Validation", "AttestationInvalid")
    ELSE IF ~v.ok THEN Failed(l, "Validation", v.err)
    ELSE IF put.err # "Ok" THEN Failed(l, put.err, "store")
    ELSE IF ~app.ok THEN Failed(stored, "Validation", app.err)
    ELSE [ledger |-> [stored EXCEPT !.log = app.entries,
                                    !.index = index_envelope(l.index, idx, env),
                                    !.cp_last_len = cp.last_len],
          outcome |-> "Ok", detail |-> "Ok",
          receipt |-> Some([index |-> idx, envelope_hash |-> env_hash,
                            merkle_root |-> root, merkle_proof |-> proof]),
          checkpoint |-> cp.cp]

\* BrainstemLedger::append on ledger l: [ledger, outcome, detail, receipt, checkpoint]
BrainstemLedger_append(l, env0, registry, max_bytes, io_ok) ==
    LET env_hash == envelope_hash(env0)
        last == IF AppendLog_len(l.log) = 0 THEN <<>>
                ELSE AppendLog_read(l.log, AppendLog_len(l.log) - 1, 1)
        prev_hash == IF last = <<>> THEN None ELSE Some(envelope_hash(last[1]))
        prev_state == [last_hash |-> prev_hash,
                       last_timestamp |-> IF last = <<>> THEN None
                                          ELSE Some(last[1].header.timestamp)]
        env == IF env0.header.prev = None
               THEN [env0 EXCEPT !.header.prev = prev_hash]
               ELSE env0
        v == validate_envelope(env, registry, prev_state)
        put == CAS_put(l.store, env.body.payload, max_bytes, io_ok)
        stored == [l EXCEPT !.store = put.files]
        app == AppendLog_append(l.log, env, registry)
        idx == AppendLog_len(app.entries) - 1
        root == AppendLog_merkle_root(app.entries)[1]
        proof == merkle_proof_for(app.entries, idx)
        cp == maybe_checkpoint(l.cp_last_len, app.entries, 1)
    IN
    IF enforce_invariants(env0.body.payload) # "Ok"
    THEN Failed(l, "InvariantViolation", enforce_invariants(env0.body.payload))
    ELSE IF hash_body(env0.body) # env0.header.body_hash
    THEN Failed([l EXCEPT !.alerts = validation_error(l.alerts, "BodyHashMismatch")],
                "Validation", "BodyHashMismatch")
    ELSE IF \E i \in 1..Len(env0.attestations) :
               hash_attestation_statement(env0.attestations[i].statement)
                   # env0.attestations[i].statement_hash
    THEN Failed([l EXCEPT !.alerts = validation_error(l.alerts, "AttestationInvalid")],
                "Validation", "AttestationInvalid")
    ELSE IF ~v.ok THEN Failed(l, "Validation", v.err)
    ELSE IF put.err # "Ok" THEN Failed(l, put.err, "store")
    ELSE IF ~app.ok THEN Failed(stored, "Validation", app.err)
    ELSE [ledger |-> [stored EXCEPT !.log = app.entries,
                                    !.index = index_envelope(l.index, idx, env),
                                    !.cp_last_len = cp.last_len],
          outcome |-> "Ok", detail |-> "Ok",
          receipt |-> Some([index |-> idx, envelope_hash |-> env_hash,
                            merkle_root |-> root, merkle_proof |-> proof]),
          checkpoint |-> cp.cp]

\* BrainstemLedger::query_with_proofs: [entries, receipts, merkle_root]
query_with_proofs(l, offset, limit) ==
    LET entries == AppendLog_read(l.log, offset, limit)
        merkle_root == AppendLog_merkle_root(l.log)
    IN [entries |-> entries,
        receipts |-> [i \in 1..Len(entries) |->
            [index |-> offset + i - 1,
             envelope_hash |-> envelope_hash(entries[i]),
             merkle_root |-> IF merkle_root = None THEN ZeroHash ELSE merkle_root[1],
             merkle_proof |-> merkle_proof_for(l.log, offset + i - 1)]],
        merkle_root |-> merkle_root]

(***************************************************************************)
(* The programs "brainstem" and "auditor": a BrainstemLedger.  "brainstem" *)
(* appends, "auditor" appends and queries.                                 *)
(***************************************************************************)
\* longest alert list explored
MaxAlerts == 2

BrainPayloads ==
    {PayloadAlpha, PayloadBeta, PayloadDyn, PayloadShm, PayloadBig, PayloadScalar,
     PayloadDomNum}

BrainRichShapes ==
    {s \in ShapesOver(BrainPayloads, {"none", "bad_body_hash"}) : s.ch = "c1"}
        \cup RichShapes

BrainShapes(entries) ==
    IF sys = "brainstem" /\ Len(entries) < MaxRich THEN BrainRichShapes ELSE PlainShapes

\* ledger.append(env)
BrainstemAppend ==
    /\ sys \in {"brainstem", "auditor"}
    /\ Len(log) < LenCap
    /\ \E s \in BrainShapes(log) :
       \E io_ok \in IF s.defect = "none" THEN BOOLEAN ELSE {TRUE} :
       \E r \in {BrainstemLedger_append(Ledger, Build(s, log), Registry,
                                        MaxPayloadBytes, io_ok)} :
        /\ Len(r.ledger.alerts) <= MaxAlerts
        /\ log' = r.ledger.log
        /\ store' = r.ledger.store
        /\ alerts' = r.ledger.alerts
        /\ index' = r.ledger.index
        /\ cp_last_len' = r.ledger.cp_last_len
        /\ res' = [op |-> "brainstem_append",
                   outcome |-> IF r.outcome = "Validation" THEN r.detail ELSE r.outcome,
                   out |-> IF r.receipt # None THEN r.receipt ELSE <<r.detail>>]
    /\ UNCHANGED <<sys, tvars>>

\* ledger.query_with_proofs(offset, limit)
BrainstemQuery ==
    /\ sys = "auditor"
    /\ \E offset \in 0..Len(log), limit \in {1, MaxLog} :
        res' = [op |-> "query", outcome |-> "Ok",
                out |-> <<offset, limit, query_with_proofs(Ledger, offset, limit)>>]
    /\ UNCHANGED <<sys, log, bvars, tvars>>

\* the checkpoint_interval the orchestrator is constructed with
CheckpointInterval == 2

\* BrainstemLedger::new: the writer is offered an empty log once; its last_len
BrainstemLedger_new(checkpoint_interval) ==
    maybe_checkpoint(0, <<>>, checkpoint_interval).last_len

InitBrainstem ==
    /\ sys = "brainstem" /\ log = <<>> /\ res = NoRes /\ InitB /\ InitT0
    /\ cp_last_len = BrainstemLedger_new(CheckpointInterval)

InitAuditor == sys = "auditor" /\ log = <<>> /\ res = NoRes /\ InitB /\ InitT0

NextBrainstem == BrainstemAppend

NextAuditor == BrainstemAppend \/ BrainstemQuery

\* The program "cas": a ContentAddressableStore used on its own
\* store.put(payload)
CasPut ==
    /\ sys = "cas"
    /\ \E payload \in BrainPayloads, io_ok \in BOOLEAN :
       \E r \in {CAS_put(store, payload, MaxPayloadBytes, io_ok)} :
        /\ store' = r.files
        /\ res' = [op |-> "cas_put", outcome |-> r.err,
                   out |-> [payload |-> payload, hash |-> r.hash, writes |-> r.writes]]
    /\ UNCHANGED <<sys, log, alerts, index, cp_last_len, tvars>>

\* store.get(hash)
CasGet ==
    /\ sys = "cas"
    /\ \E payload \in BrainPayloads :
        res' = [op |-> "cas_get", outcome |-> "Ok",
                out |-> [hash |-> hash_payload(ToVec(payload)),
                         bytes |-> CAS_get(store, hash_payload(ToVec(payload)))]]
    /\ UNCHANGED <<sys, log, bvars, tvars>>

InitCas == sys = "cas" /\ log = <<>> /\ res = NoRes /\ InitB /\ InitT0

NextCas == CasPut \/ CasGet

SpecCas == InitCas /\ [][NextCas]_vars

SpecBrainstem == InitBrainstem /\ [][NextBrainstem]_vars

SpecAuditor == InitAuditor /\ [][NextAuditor]_vars

\* every use of the orchestrator
SpecLedger == (InitBrainstem \/ InitAuditor) /\ [][NextAuditor]_vars

\* both ways of appending: the bare log and the orchestrator
SpecAppends == (InitLog \/ InitBrainstem) /\ [][NextLog \/ NextBrainstem]_vars

(***************************************************************************)
(* The verifier of receipts                                                *)
(***************************************************************************)
\* 2^k
RECURSIVE Pow2(_)
Pow2(k) == IF k = 0 THEN 1 ELSE 2 * Pow2(k - 1)

\* bit k of n
Bit(n, k) == (n \div Pow2(k)) % 2

\* the verifier's fold from step k on: the sibling goes right when bit k of
\* the index is 0, left otherwise
RECURSIVE FoldFrom(_, _, _, _)
FoldFrom(acc, proof, idx, k) ==
    IF k >= Len(proof) THEN acc
    ELSE FoldFrom(IF Bit(idx, k) = 0 THEN H_merkle(acc, proof[k + 1])
                                     ELSE H_merkle(proof[k + 1], acc),
                  proof, idx, k + 1)

\* verify(leaf, proof, index, root)
VerifyInclusion(leaf, proof, idx, root) == FoldFrom(leaf, proof, idx, 0) = root


(***************************************************************************)
(* tokio::sync::broadcast as the transports use it.  The channel is the    *)
(* sequence of the values it accepted; a receiver is [start, pos], the     *)
(* number of values accepted before it subscribed and the number it has    *)
(* passed.  The transports drop the receiver that broadcast::channel       *)
(* returns, so a new channel has no receiver.                              *)
(***************************************************************************)
\* Sender::len: the queued values some receiver has not passed yet
Sender_len(values, receivers) ==
    IF receivers = <<>> THEN 0
    ELSE Len(values)
         - (CHOOSE m \in {receivers[i].pos : i \in 1..Len(receivers)} :
               \A i \in 1..Len(receivers) : m <= receivers[i].pos)

\* Sender::send: fails when no receiver is alive
Sender_send(values, receivers, env) ==
    IF receivers = <<>>
    THEN [err |-> "SendError", values |-> values]
    ELSE [err |-> "Ok", values |-> Append(values, env)]

\* Sender::subscribe: the new receiver sees only what is sent from now on
Sender_subscribe(values, receivers) ==
    Append(receivers, [start |-> Len(values), pos |-> Len(values)])

\* what receiver r has been handed by recv so far
Delivered(values, r) == SubSeq(values, r.start + 1, r.pos)

\* variant: the check lets one more value in
publish_event_off_by_one(values, receivers, queue_depth, env) ==
    IF Sender_len(values, receivers) > queue_depth
    THEN [err |-> "Backpressure", values |-> values]
    ELSE Sender_send(values, receivers, env)

\* publish_event(tx, queue_depth, env)
publish_event(values, receivers, queue_depth, env) ==
    IF Sender_len(values, receivers) >= queue_depth
    THEN [err |-> "Backpressure", values |-> values]
    ELSE Sender_send(values, receivers, env)

(***************************************************************************)
(* Transports.  A transport t is [log, sent, rxs, ring, cfg]; each append  *)
(* returns [t, outcome, status].                                           *)
(***************************************************************************)
Transport == [log |-> log, sent |-> sent, rxs |-> rxs, ring |-> ring, cfg |-> cfg]

\* usize::max(queue_depth, 1)
max1(queue_depth) == IF queue_depth < 1 THEN 1 ELSE queue_depth

\* InVmQueue::with_log
InVmQueue_with_log(queue_depth) ==
    [log |-> <<>>, sent |-> <<>>, rxs |-> <<>>, ring |-> <<>>,
     cfg |-> [NoCfg EXCEPT !.queue_depth = max1(queue_depth)]]

\* UnixIpc::bind_with_log
UnixIpc_bind_with_log(queue_depth) == InVmQueue_with_log(queue_depth)

\* InVmQueue::append (Loopback::append forwards to it)
InVmQueue_append(t, env, registry) ==
    LET app == AppendLog_append(t.log, env, registry)
        pub == publish_event(t.sent, t.rxs, t.cfg.queue_depth, env)
    IN IF ~app.ok THEN [t |-> t, outcome |-> app.err, status |-> "Err"]
       ELSE [t |-> [t EXCEPT !.log = app.entries, !.sent = pub.values],
             outcome |-> pub.err,
             status |-> IF pub.err = "Ok" THEN "Ok" ELSE "Err"]

\* UnixIpc::append_env; handle_client answers AppendOk or Error(text)
UnixIpc_append_env(t, env, registry) ==
    LET app == AppendLog_append(t.log, env, registry)
        pub == publish_event(t.sent, t.rxs, t.cfg.queue_depth, env)
    IN IF ~app.ok THEN [t |-> t, outcome |-> app.err, status |-> "Error"]
       ELSE [t |-> [t EXCEPT !.log = app.entries, !.sent = pub.values],
             outcome |-> pub.err,
             status |-> IF pub.err = "Ok" THEN "AppendOk" ELSE "Error"]

(***************************************************************************)
(* Wire form of the remote transport: the proto messages                   *)
(***************************************************************************)
\* a byte vector: its length and what it holds
EmptyVec == [len |-> 0, val |-> <<>>]
\* hash.to_vec()
HashVec(h) == [len |-> 32, val |-> h]
\* signature.to_vec()
SigVec(sig) == [len |-> 64, val |-> sig]

\* results of the decoders: [err, val]
Decoded(v) == [err |-> "Ok", val |-> Some(v)]
DecodeErr(e) == [err |-> e, val |-> None]

hash_from_vec(bytes) ==
    IF bytes.len # 32 THEN DecodeErr("expected 32 byte hash") ELSE Decoded(bytes.val)

signature_from_vec(bytes) ==
    IF bytes.len # 64 THEN DecodeErr("expected 64 byte signature") ELSE Decoded(bytes.val)

\* serde_json: Value::to_string and from_str
to_string(payload) == [json |-> TRUE, text |-> Some(payload)]
from_str(text) == IF text.json THEN Decoded(text.text[1]) ELSE DecodeErr("json")

attestation_to_proto(att) ==
    [issuer |-> HashVec(att.issuer),
     statement |-> Some([kind |-> Some([kind |-> att.statement.kind,
                                        runtime_id |-> att.statement.runtime_id,
                                        data |-> HashVec(att.statement.data)])]),
     statement_hash |-> HashVec(att.statement_hash),
     signature |-> SigVec(att.signature)]

attestation_from_proto(att) ==
    IF att.statement = None \/ att.statement[1].kind = None
    THEN DecodeErr("attestation statement missing")
    ELSE LET k == att.statement[1].kind[1]
             data == hash_from_vec(k.data)
             issuer == hash_from_vec(att.issuer)
             statement_hash == hash_from_vec(att.statement_hash)
             signature == signature_from_vec(att.signature)
         IN IF data.err # "Ok" THEN DecodeErr(data.err)
            ELSE IF issuer.err # "Ok" THEN DecodeErr(issuer.err)
            ELSE IF statement_hash.err # "Ok" THEN DecodeErr(statement_hash.err)
            ELSE IF signature.err # "Ok" THEN DecodeErr(signature.err)
            ELSE Decoded([issuer |-> issuer.val[1],
                          statement |-> [kind |-> k.kind, runtime_id |-> k.runtime_id,
                                         data |-> data.val[1]],
                          statement_hash |-> statement_hash.val[1],
                          signature |-> signature.val[1]])

\* u32 as u16
as_u16(n) == n % 65536

envelope_to_proto(env) ==
    [header |-> Some([channel |-> env.header.channel,
                      version |-> env.header.version,
                      prev |-> IF env.header.prev = None THEN EmptyVec
                               ELSE HashVec(env.header.prev[1]),
                      body_hash |-> HashVec(env.header.body_hash),
                      timestamp |-> env.header.timestamp]),
     body |-> Some([payload_json |-> to_string(env.body.payload),
                    payload_type |-> IF env.body.payload_type = None THEN ""
                                     ELSE env.body.payload_type[1]]),
     signatures |-> [i \in 1..Len(env.signatures) |->
                        [signer |-> HashVec(env.signatures[i].signer),
                         signature |-> SigVec(env.signatures[i].signature)]],
     attestations |-> [i \in 1..Len(env.attestations) |->
                          attestation_to_proto(env.attestations[i])]]

envelope_from_proto(env) ==
    IF env.header = None THEN DecodeErr("envelope header missing")
    ELSE IF env.body = None THEN DecodeErr("envelope body missing")
    ELSE
    LET header == env.header[1]
        body == env.body[1]
        payload == from_str(body.payload_json)
        prev == IF header.prev.len = 0 THEN Decoded(None)
                ELSE LET h == hash_from_vec(header.prev)
                     IN IF h.err # "Ok" THEN h ELSE Decoded(h.val)
        body_hash == hash_from_vec(header.body_hash)
        signers == [i \in 1..Len(env.signatures) |-> hash_from_vec(env.signatures[i].signer)]
        sigs == [i \in 1..Len(env.signatures) |->
                    signature_from_vec(env.signatures[i].signature)]
        atts == [i \in 1..Len(env.attestations) |->
                    attestation_from_proto(env.attestations[i])]
    IN
    IF payload.err # "Ok" THEN DecodeErr(payload.err)
    ELSE IF prev.err # "Ok" THEN DecodeErr(prev.err)
    ELSE IF body_hash.err # "Ok" THEN DecodeErr(body_hash.err)
    ELSE IF \E i \in 1..Len(signers) : signers[i].err # "Ok" \/ sigs[i].err # "Ok"
    THEN DecodeErr("signature")
    ELSE IF \E i \in 1..Len(atts) : atts[i].err # "Ok" THEN DecodeErr("attestation")
    ELSE Decoded(
        [header |-> [channel |-> header.channel,
                     version |-> as_u16(header.version),
                     prev |-> prev.val[1],
                     body_hash |-> body_hash.val[1],
                     timestamp |-> header.timestamp],
         body |-> [payload |-> payload.val[1],
                   payload_type |-> IF body.payload_type = "" THEN None
                                    ELSE Some(body.payload_type)],
         signatures |-> [i \in 1..Len(signers) |->
                            [signer |-> signers[i].val[1], signature |-> sigs[i].val[1]]],
         attestations |-> [i \in 1..Len(atts) |-> atts[i].val[1]]])

(***************************************************************************)
(* Attestation handshake                                                   *)
(***************************************************************************)
\* AttestationHandshake::verify: "Ok" or the complaint
AttestationHandshake_verify(h) ==
    IF h.presented = None THEN "Ok"
    ELSE LET att == h.presented[1]
             computed == hash_attestation_statement(att.statement)
         IN IF h.expected_statement_hash # None /\ h.expected_statement_hash[1] # computed
            THEN "attestation statement hash mismatch"
            ELSE IF /\ h.expected_runtime_id # None
                    /\ att.statement.kind = "Runtime"
                    /\ att.statement.runtime_id # h.expected_runtime_id[1]
            THEN "attestation runtime id mismatch"
            ELSE "Ok"

handshake_to_proto(handshake) ==
    IF handshake = None THEN None
    ELSE LET h == handshake[1]
         IN Some([nonce |-> h.nonce,
                  expected_runtime_id |-> IF h.expected_runtime_id = None THEN ""
                                          ELSE h.expected_runtime_id[1],
                  expected_statement_hash |->
                      IF h.expected_statement_hash = None THEN EmptyVec
                      ELSE HashVec(h.expected_statement_hash[1]),
                  presented |-> IF h.presented = None THEN None
                                ELSE Some(attestation_to_proto(h.presented[1]))])

\* [err, val]: val is the Option<AttestationHandshake>
handshake_from_proto(handshake) ==
    IF handshake = None THEN Decoded(None)
    ELSE LET h == handshake[1]
             esh == IF h.expected_statement_hash.len = 0 THEN Decoded(None)
                    ELSE LET x == hash_from_vec(h.expected_statement_hash)
                         IN IF x.err # "Ok" THEN x ELSE Decoded(x.val)
             presented == IF h.presented = None THEN Decoded(None)
                          ELSE LET a == attestation_from_proto(h.presented[1])
                               IN IF a.err # "Ok" THEN a ELSE Decoded(a.val)
         IN IF esh.err # "Ok" THEN DecodeErr(esh.err)
            ELSE IF presented.err # "Ok" THEN DecodeErr(presented.err)
            ELSE Decoded(Some([nonce |-> h.nonce,
                               expected_runtime_id |->
                                   IF h.expected_runtime_id = "" THEN None
                                   ELSE Some(h.expected_runtime_id),
                               expected_statement_hash |-> esh.val[1],
                               presented |-> presented.val[1]]))

\* variant: the caller's handshake is checked against its own expectations
verify_with_expected_as_provided(expected, provided) ==
    LET handshake ==
            IF provided # None THEN provided[1]
            ELSE IF expected # None THEN expected[1]
            ELSE [nonce |-> "", expected_runtime_id |-> None,
                  expected_statement_hash |-> None, presented |-> None]
    IN IF /\ handshake.presented = None
          /\ (handshake.expected_runtime_id # None
                \/ handshake.expected_statement_hash # None)
       THEN "attestation required but not provided"
       ELSE AttestationHandshake_verify(handshake)

verify_with_expected(expected, provided) ==
    LET handshake ==
            IF expected # None
            THEN IF provided # None
                 THEN [expected[1] EXCEPT !.presented = provided[1].presented]
                 ELSE expected[1]
            ELSE IF provided # None THEN provided[1]
                 ELSE [nonce |-> "", expected_runtime_id |-> None,
                       expected_statement_hash |-> None, presented |-> None]
    IN IF /\ handshake.presented = None
          /\ (handshake.expected_runtime_id # None
                \/ handshake.expected_statement_hash # None)
       THEN "attestation required but not provided"
       ELSE AttestationHandshake_verify(handshake)

(***************************************************************************)
(* Remote server                                                           *)
(***************************************************************************)
\* GrpcTransportService::new
GrpcTransportService_new(attestation, queue_depth) ==
    [log |-> <<>>, sent |-> <<>>, rxs |-> <<>>, ring |-> <<>>,
     cfg |-> [NoCfg EXCEPT !.queue_depth = max1(queue_depth),
                           !.attestation = attestation]]

\* the append RPC on request [handshake, envelope]; status is the gRPC code
GrpcTransportService_append(t, req, registry) ==
    LET handshake == handshake_from_proto(req.handshake)
        verified == verify_with_expected(t.cfg.attestation, handshake.val[1])
        env == envelope_from_proto(req.envelope[1])
        app == AppendLog_append(t.log, env.val[1], registry)
        pub == publish_event(t.sent, t.rxs, t.cfg.queue_depth, env.val[1])
    IN IF handshake.err # "Ok"
       THEN [t |-> t, outcome |-> "Handshake", status |-> "PermissionDenied"]
       ELSE IF verified # "Ok"
       THEN [t |-> t, outcome |-> "Handshake", status |-> "PermissionDenied"]
       ELSE IF req.envelope = None
       THEN [t |-> t, outcome |-> "MissingEnvelope", status |-> "InvalidArgument"]
       ELSE IF env.err # "Ok"
       THEN [t |-> t, outcome |-> "Decode", status |-> "InvalidArgument"]
       ELSE IF ~app.ok
       THEN [t |-> t, outcome |-> app.err, status |-> "InvalidArgument"]
       ELSE [t |-> [t EXCEPT !.log = app.entries, !.sent = pub.values],
             outcome |-> pub.err,
             status |-> IF pub.err = "Ok" THEN "Ok" ELSE "FailedPrecondition"]

\* the read RPC on request [handshake, offset, limit]: the envelopes streamed
GrpcTransportService_read(t, req) ==
    LET handshake == handshake_from_proto(req.handshake)
        items == AppendLog_read(t.log, req.offset, req.limit)
    IN IF handshake.err # "Ok"
          \/ verify_with_expected(t.cfg.attestation, handshake.val[1]) # "Ok"
       THEN [items |-> <<>>, outcome |-> "Handshake", status |-> "PermissionDenied"]
       ELSE [items |-> [i \in 1..Len(items) |-> envelope_to_proto(items[i])],
             outcome |-> "Ok", status |-> "Ok"]

\* the subscribe RPC: the new receiver list, or the refusal
GrpcTransportService_subscribe(t, handshake) ==
    LET h == handshake_from_proto(handshake)
    IN IF h.err # "Ok" \/ verify_with_expected(t.cfg.attestation, h.val[1]) # "Ok"
       THEN [rxs |-> t.rxs, outcome |-> "Handshake", status |-> "PermissionDenied"]
       ELSE [rxs |-> Sender_subscribe(t.sent, t.rxs), outcome |-> "Ok", status |-> "Ok"]

(***************************************************************************)
(* Mailbox                                                                 *)
(***************************************************************************)
\* bincode::serialize(env).len(): the fixed-width fields, the length-prefixed
\* channel and payload type, the payload at its JSON size, 96 bytes a
\* signature and 176 an attestation
BincodeLen(env) ==
    (8 + 2) + 2 + (IF env.header.prev = None THEN 1 ELSE 33) + 32 + 8
    + ByteLen(env.body.payload) + (IF env.body.payload_type = None THEN 1 ELSE 13)
    + 8 + 96 * Len(env.signatures) + 8 + 176 * Len(env.attestations)

\* MailboxTransport::with_log; the handshake is verified when one is given
MailboxTransport_with_log(slot_bytes, slots, attestation, queue_depth) ==
    IF attestation # None /\ AttestationHandshake_verify(attestation[1]) # "Ok"
    THEN None
    ELSE Some([log |-> <<>>, sent |-> <<>>, rxs |-> <<>>, ring |-> <<>>,
               cfg |-> [queue_depth |-> max1(queue_depth), attestation |-> attestation,
                        slots |-> slots, slot_bytes |-> slot_bytes]])

\* variant: a full ring gives up its oldest envelope
MailboxTransport_append_wrapping(t, env, registry) ==
    LET app == AppendLog_append(t.log, env, registry)
        logged == [t EXCEPT !.log = app.entries]
        pub == publish_event(t.sent, t.rxs, t.cfg.queue_depth, env)
        kept == IF Len(t.ring) = t.cfg.slots /\ t.ring # <<>> THEN Tail(t.ring) ELSE t.ring
    IN IF BincodeLen(env) > t.cfg.slot_bytes
       THEN [t |-> t, outcome |-> "SlotExceeded", status |-> "Err"]
       ELSE IF ~app.ok THEN [t |-> t, outcome |-> app.err, status |-> "Err"]
       ELSE [t |-> [logged EXCEPT !.ring = Append(kept, env), !.sent = pub.values],
             outcome |-> pub.err,
             status |-> IF pub.err = "Ok" THEN "Ok" ELSE "Err"]

\* MailboxTransport::append
MailboxTransport_append(t, env, registry) ==
    LET app == AppendLog_append(t.log, env, registry)
        logged == [t EXCEPT !.log = app.entries]
        pub == publish_event(t.sent, t.rxs, t.cfg.queue_depth, env)
    IN IF BincodeLen(env) > t.cfg.slot_bytes
       THEN [t |-> t, outcome |-> "SlotExceeded", status |-> "Err"]
       ELSE IF ~app.ok THEN [t |-> t, outcome |-> app.err, status |-> "Err"]
       ELSE IF Len(t.ring) = t.cfg.slots
       THEN [t |-> logged, outcome |-> "BufferFull", status |-> "Err"]
       ELSE [t |-> [logged EXCEPT !.ring = Append(t.ring, env), !.sent = pub.values],
             outcome |-> pub.err,
             status |-> IF pub.err = "Ok" THEN "Ok" ELSE "Err"]

(***************************************************************************)
(* The transport programs "invm", "ipc", "grpc" and "mailbox": one         *)
(* transport over an AppendLog, its callers and its subscribers.  A caller *)
(* whose append met Backpressure keeps the request, and re-submits it once *)
(* the queue has been drained; nothing else is appended in between.        *)
(***************************************************************************)
\* largest queue depth asked for
MaxDepth == 2
\* most receivers handed out
MaxSubs == 2
\* slot_bytes of the mailbox
SlotBytes == 240

TransportKinds == {"invm", "ipc", "grpc", "mailbox"}

\* the adapters that are constructed with a handshake of their own
AttestedKinds == {"loopback", "adapter"}

\* the programs whose callers run side by side
ConcurrentKinds == {"threads", "clients"}

\* the expected-handshake template of a remote server
TemplateA ==
    [nonce |-> "n1", expected_runtime_id |-> Some("enclave-A"),
     expected_statement_hash |-> None, presented |-> None]

\* a server that expects the statement itself
TemplateH ==
    [nonce |-> "n1", expected_runtime_id |-> None,
     expected_statement_hash |->
         Some(hash_attestation_statement(RuntimeStatement("enclave-A"))),
     presented |-> None]

\* the handshakes callers put in their requests
Presenting(att) ==
    [nonce |-> "n1", expected_runtime_id |-> None,
     expected_statement_hash |-> None, presented |-> Some(att)]

Handshakes ==
    {None, Some(Presenting(GoodAtt)),
     Some(Presenting(SignedAttestation(RuntimeStatement("enclave-B"), "K3"))),
     Some(Presenting([SignedAttestation(RuntimeStatement("enclave-B"), "K3")
                         EXCEPT !.statement_hash = GoodAtt.statement_hash]))}

\* envelopes submitted to a transport
QueueShapes ==
    {s \in PlainShapes : s.ch = "c1" /\ s.ts = 2}

MailboxShapes ==
    QueueShapes \cup {s \in ShapesOver({PayloadBig}, {"none"}) : s.ch = "c1" /\ s.ts = 2}

\* append requests of remote callers: [handshake, envelope] in wire form
AppendRequest(handshake, envelope) == [handshake |-> handshake, envelope |-> envelope]

RemoteRequests(entries) ==
    {AppendRequest(handshake_to_proto(h), Some(envelope_to_proto(Build(s, entries)))) :
        h \in Handshakes, s \in QueueShapes}
    \cup {AppendRequest(handshake_to_proto(Some(Presenting(GoodAtt))), None),
          AppendRequest(handshake_to_proto(Some(Presenting(GoodAtt))),
                        Some([envelope_to_proto(Build(Shape("c1", PayloadAlpha, 2, "tail", "none"),
                                                     entries))
                                 EXCEPT !.header = None]))}

\* the outcome r of an append becomes the state; the caller keeps a request
\* that met Backpressure
Commit(r, op, req) ==
    /\ log' = r.t.log
    /\ sent' = r.t.sent
    /\ ring' = r.t.ring
    /\ pending' = IF r.outcome = "Backpressure" THEN Some(req) ELSE None
    /\ res' = [op |-> op, outcome |-> r.outcome, out |-> <<req, r.status>>]
    /\ UNCHANGED <<sys, cfg, rxs, bvars, xvars>>

\* queue.append(env)
InVmAppend ==
    /\ sys = "invm" /\ pending = None /\ Len(log) < LenCap
    /\ \E s \in QueueShapes :
       \E r \in {InVmQueue_append(Transport, Build(s, log), Registry)} :
          Commit(r, "transport_append", Build(s, log))

\* IpcRequest::Append(env) served by handle_client
IpcAppend ==
    /\ sys = "ipc" /\ pending = None /\ Len(log) < LenCap
    /\ \E s \in QueueShapes :
       \E r \in {UnixIpc_append_env(Transport, Build(s, log), Registry)} :
          Commit(r, "transport_append", Build(s, log))

\* the append RPC
RemoteAppend ==
    /\ sys = "grpc" /\ pending = None /\ Len(log) < LenCap
    /\ \E req \in RemoteRequests(log) :
       \E r \in {GrpcTransportService_append(Transport, req, Registry)} :
          Commit(r, "transport_append", req)

\* mailbox.append(env)
MailboxAppend ==
    /\ sys = "mailbox" /\ pending = None /\ Len(log) < LenCap
    /\ \E s \in MailboxShapes :
       \E r \in {MailboxTransport_append(Transport, Build(s, log), Registry)} :
          Commit(r, "transport_append", Build(s, log))

\* the append of the running transport
Submit(t, req) ==
    CASE sys = "invm" -> InVmQueue_append(t, req, Registry)
      [] sys = "ipc" -> UnixIpc_append_env(t, req, Registry)
      [] sys = "grpc" -> GrpcTransportService_append(t, req, Registry)
      [] sys = "mailbox" -> MailboxTransport_append(t, req, Registry)

\* the caller re-submits the request that met Backpressure, the subscribers
\* having drained the queue
RetryAppend ==
    /\ sys \in TransportKinds /\ pending # None /\ Len(log) < LenCap
    /\ rxs # <<>> /\ Sender_len(sent, rxs) = 0
    /\ \E r \in {Submit(Transport, pending[1])} :
          Commit(r, "transport_retry", pending[1])

\* transport.subscribe()
Subscribe ==
    /\ sys \in {"invm", "ipc", "mailbox", "loopback"} /\ Len(rxs) < MaxSubs
    /\ rxs' = Sender_subscribe(sent, rxs)
    /\ res' = [op |-> "subscribe", outcome |-> "Ok", out |-> <<Len(rxs) + 1>>]
    /\ UNCHANGED <<sys, log, bvars, cfg, sent, ring, pending, xvars>>

\* the subscribe RPC
RemoteSubscribe ==
    /\ sys = "grpc" /\ Len(rxs) < MaxSubs
    /\ \E h \in Handshakes :
       \E r \in {GrpcTransportService_subscribe(Transport, handshake_to_proto(h))} :
          /\ rxs' = r.rxs
          /\ res' = [op |-> "subscribe", outcome |-> r.outcome,
                     out |-> <<[handshake |-> handshake_to_proto(h)], r.status>>]
    /\ UNCHANGED <<sys, log, bvars, cfg, sent, ring, pending, xvars>>

\* the read RPC
ReadRequest(handshake, offset, limit) ==
    [handshake |-> handshake, offset |-> offset, limit |-> limit]

RemoteRead ==
    /\ sys = "grpc"
    /\ \E h \in Handshakes :
       \E req \in {ReadRequest(handshake_to_proto(h), 0, MaxLog)} :
       \E r \in {GrpcTransportService_read(Transport, req)} :
          res' = [op |-> "remote_read", outcome |-> r.outcome,
                  out |-> <<req, r.status, r.items>>]
    /\ UNCHANGED <<sys, log, bvars, tvars>>

\* rx.recv() returns the next envelope to receiver i
Recv ==
    /\ sys \in TransportKinds \cup AttestedKinds \cup ConcurrentKinds
    /\ \E i \in 1..Len(rxs) :
          /\ rxs[i].pos < Len(sent)
          /\ rxs' = [rxs EXCEPT ![i].pos = @ + 1]
          /\ res' = [op |-> "recv", outcome |-> "Ok", out |-> <<i, sent[rxs[i].pos + 1]>>]
    /\ UNCHANGED <<sys, log, bvars, cfg, sent, ring, pending, xvars>>

\* the transport as constructed
Constructed(t) ==
    /\ log = t.log /\ sent = t.sent /\ rxs = t.rxs /\ ring = t.ring /\ cfg = t.cfg
    /\ pending = None /\ res = NoRes /\ InitB /\ InitX0

InitQueue ==
    \E queue_depth \in 0..MaxDepth :
        \/ sys = "invm" /\ Constructed(InVmQueue_with_log(queue_depth))
        \/ sys = "ipc" /\ Constructed(UnixIpc_bind_with_log(queue_depth))

InitRemote ==
    /\ sys = "grpc"
    /\ \E queue_depth \in 0..MaxDepth,
          attestation \in {None, Some(TemplateA), Some(TemplateH)} :
          Constructed(GrpcTransportService_new(attestation, queue_depth))

InitMailbox ==
    /\ sys = "mailbox"
    /\ \E queue_depth \in 0..MaxDepth, slots \in {1, MaxLog} :
          /\ MailboxTransport_with_log(SlotBytes, slots, None, queue_depth) # None
          /\ Constructed(MailboxTransport_with_log(SlotBytes, slots, None, queue_depth)[1])

InitTransport == InitQueue \/ InitRemote \/ InitMailbox

NextTransport ==
    \/ InVmAppend \/ IpcAppend \/ RemoteAppend \/ MailboxAppend
    \/ RetryAppend \/ Subscribe \/ RemoteSubscribe \/ RemoteRead \/ Recv

SpecTransport == InitTransport /\ [][NextTransport]_vars

(***************************************************************************)
(* The programs "loopback", "mailbox" and "adapter" constructed with an    *)
(* attestation handshake: a Loopback, a MailboxTransport, and a            *)
(* QuicGrpcAdapter connected to a remote server.                           *)
(***************************************************************************)
DEFAULT_QUEUE_DEPTH == 1024

\* Loopback::new: the handshake is verified when one is given
Loopback_new(attestation) ==
    IF attestation # None /\ AttestationHandshake_verify(attestation[1]) # "Ok"
    THEN None
    ELSE Some([InVmQueue_with_log(DEFAULT_QUEUE_DEPTH) EXCEPT !.cfg.attestation = attestation])

\* QuicGrpcAdapter::connect: the adapter, or nothing when the handshake fails
QuicGrpcAdapter_connect(attestation) ==
    IF attestation # None /\ AttestationHandshake_verify(attestation[1]) # "Ok"
    THEN None
    ELSE Some([attestation |-> attestation, queue_depth |-> DEFAULT_QUEUE_DEPTH])

\* QuicGrpcAdapter::append against the server t
QuicGrpcAdapter_append(a, t, env, registry) ==
    GrpcTransportService_append(
        t, AppendRequest(handshake_to_proto(a.attestation), Some(envelope_to_proto(env))),
        registry)

\* QuicGrpcAdapter::subscribe against the server t
QuicGrpcAdapter_subscribe(a, t) ==
    GrpcTransportService_subscribe(t, handshake_to_proto(a.attestation))

(***************************************************************************)
(* The envelope codec of the remote transport on its own: a client turns   *)
(* an envelope into its proto message, the server turns the message back.  *)
(***************************************************************************)
\* EnvelopeBody.payload_type: Option<String>
PayloadTypes == {None, Some(""), Some("test")}

\* the envelopes a client sends: one or two signers, with and without
\* attestations, prev absent, zero or the hash of an earlier envelope
CodecEnvelopes ==
    {BuildTyped(s, entries, pt) :
        s \in ShapesOver({PayloadAlpha, PayloadBeta, PayloadScalar, PayloadDomNum},
                         {"none", "prev_zero", "extra_att"}),
        entries \in {<<>>, <<Build(Shape("c1", PayloadAlpha, 1, "none", "none"), <<>>)>>},
        pt \in PayloadTypes}

\* client side of QuicGrpcAdapter::append: envelope_to_proto(&env)
CodecEncode ==
    /\ sys = "codec" /\ pending = None /\ res.op = "init"
    /\ pending' = Some(envelope_to_proto(calls[1]))
    /\ res' = [op |-> "envelope_to_proto", outcome |-> "Ok", out |-> <<>>]
    /\ UNCHANGED <<sys, log, bvars, cfg, sent, rxs, ring, xvars>>

\* server side of the append RPC: envelope_from_proto(env)
CodecDecode ==
    /\ sys = "codec" /\ pending # None
    /\ \E r \in {envelope_from_proto(pending[1])} :
          res' = [op |-> "envelope_from_proto", outcome |-> r.err, out |-> r.val]
    /\ pending' = None
    /\ UNCHANGED <<sys, log, bvars, cfg, sent, rxs, ring, xvars>>

InitCodec ==
    /\ sys = "codec" /\ log = <<>> /\ res = NoRes /\ InitB
    /\ cfg = NoCfg /\ sent = <<>> /\ rxs = <<>> /\ ring = <<>> /\ pending = None
    /\ client = None /\ subs = <<>>
    /\ \E e \in CodecEnvelopes : calls = <<e>>

NextCodec == CodecEncode \/ CodecDecode

SpecCodec == InitCodec /\ [][NextCodec]_vars

(***************************************************************************)
(* MerkleSegmenter, driven as in tests::merkle_segmenter_emits_root: the   *)
(* caller builds a chain of envelopes and pushes the hash of each.         *)
(***************************************************************************)
\* largest window a segmenter is made with
MaxWindow == 3

\* most pushes a caller makes
MaxPushes == 6

RECURSIVE compute_merkle(_)
compute_merkle(items) ==
    IF items = <<>> THEN ZeroHash
    ELSE IF Len(items) > 1
    THEN compute_merkle(
            [k \in 1..((Len(items) + 1) \div 2) |->
                IF 2 * k <= Len(items)
                THEN H_merkle(items[2 * k - 1], items[2 * k])
                ELSE H_merkle(items[2 * k - 1], items[2 * k - 1])])
    ELSE items[1]

MerkleSegmenter_new(window) == [window |-> window, queue |-> <<>>]

\* push that leaves the emitted hashes in the queue
MerkleSegmenter_push_keeping(seg, env_hash) ==
    LET queue == Append(seg.queue, env_hash)
    IN IF Len(queue) = seg.window
       THEN [seg |-> [seg EXCEPT !.queue = queue], root |-> Some(compute_merkle(queue))]
       ELSE [seg |-> [seg EXCEPT !.queue = queue], root |-> None]

MerkleSegmenter_push(seg, env_hash) ==
    LET queue == Append(seg.queue, env_hash)
    IN IF Len(queue) = seg.window
       THEN [seg |-> [seg EXCEPT !.queue = <<>>], root |-> Some(compute_merkle(queue))]
       ELSE [seg |-> [seg EXCEPT !.queue = queue], root |-> None]

\* the envelopes the caller builds
SegmentShapes ==
    {s \in ShapesOver({PayloadAlpha, PayloadBeta}, {"none"}) : s.ch = "c1" /\ s.ts = 1}

\* segmenter.push(envelope_hash(&env)) for the caller's next envelope
SegmenterPush ==
    /\ sys = "segmenter" /\ Len(log) < MaxPushes
    /\ \E s \in SegmentShapes :
       \E r \in {MerkleSegmenter_push([window |-> cfg.window, queue |-> ring],
                                      envelope_hash(Build(s, log)))} :
          /\ log' = Append(log, Build(s, log))
          /\ ring' = r.seg.queue
          /\ res' = [op |-> "push", outcome |-> "Ok", out |-> r.root]
    /\ UNCHANGED <<sys, bvars, cfg, sent, rxs, pending, xvars>>

InitSegmenter ==
    /\ sys = "segmenter" /\ log = <<>> /\ res = NoRes /\ InitB
    /\ sent = <<>> /\ rxs = <<>> /\ pending = None /\ InitX0
    /\ \E window \in 0..MaxWindow :
          /\ cfg = [window |-> MerkleSegmenter_new(window).window]
          /\ ring = MerkleSegmenter_new(window).queue

NextSegmenter == SegmenterPush

SpecSegmenter == InitSegmenter /\ [][NextSegmenter]_vars

\* the handshakes transports are constructed with
Expecting(att) == [TemplateA EXCEPT !.presented = Some(att)]

HandshakeConfigs ==
    {None, Some(TemplateA), Some(TemplateH), Some(Expecting(GoodAtt)),
     Some(Expecting(SignedAttestation(RuntimeStatement("enclave-B"), "K3"))),
     Some(Expecting(SignedAttestation(BuildStatement("builder-1"), "K3")))}

\* loop.append(env)
LoopbackAppend ==
    /\ sys = "loopback" /\ Len(log) < LenCap
    /\ \E s \in QueueShapes :
       \E r \in {InVmQueue_append(Transport, Build(s, log), Registry)} :
          Commit(r, "transport_append", Build(s, log))

\* adapter.append(env)
AdapterAppend ==
    /\ sys = "adapter" /\ Len(log) < LenCap
    /\ \E s \in QueueShapes :
       \E r \in {QuicGrpcAdapter_append(client[1], Transport, Build(s, log), Registry)} :
          Commit(r, "transport_append", Build(s, log))

\* adapter.subscribe()
AdapterSubscribe ==
    /\ sys = "adapter" /\ Len(rxs) < MaxSubs
    /\ \E r \in {QuicGrpcAdapter_subscribe(client[1], Transport)} :
          /\ rxs' = r.rxs
          /\ res' = [op |-> "subscribe", outcome |-> r.outcome, out |-> <<r.status>>]
    /\ UNCHANGED <<sys, log, bvars, cfg, sent, ring, pending, xvars>>

InitLoopback ==
    /\ sys = "loopback"
    /\ \E attestation \in HandshakeConfigs :
          /\ Loopback_new(attestation) # None
          /\ Constructed(Loopback_new(attestation)[1])

InitAttestedMailbox ==
    /\ sys = "mailbox"
    /\ \E attestation \in HandshakeConfigs :
          /\ MailboxTransport_with_log(SlotBytes, MaxLog, attestation, MaxDepth) # None
          /\ Constructed(MailboxTransport_with_log(SlotBytes, MaxLog, attestation,
                                                   MaxDepth)[1])

InitAdapter ==
    /\ sys = "adapter"
    /\ \E attestation \in HandshakeConfigs,
          expected \in {None, Some(TemplateA), Some(Expecting(GoodAtt))} :
       \E t \in {GrpcTransportService_new(expected, DEFAULT_QUEUE_DEPTH)} :
          /\ QuicGrpcAdapter_connect(attestation) # None
          /\ client = QuicGrpcAdapter_connect(attestation)
          /\ log = t.log /\ sent = t.sent /\ rxs = t.rxs /\ ring = t.ring /\ cfg = t.cfg
          /\ pending = None /\ res = NoRes /\ InitB /\ calls = <<>> /\ subs = <<>>

InitAttested == InitLoopback \/ InitAttestedMailbox \/ InitAdapter

NextAttested ==
    \/ LoopbackAppend \/ MailboxAppend \/ AdapterAppend
    \/ Subscribe \/ AdapterSubscribe \/ Recv

SpecAttested == InitAttested /\ [][NextAttested]_vars

(***************************************************************************)
(* The programs "threads" and "clients": callers that run side by side.    *)
(* "threads" is an InVmQueue shared by caller threads, "clients" a UnixIpc *)
(* server whose clients are each served by a handle_client task of their   *)
(* own.  An append is two steps, the log's append under the log's lock and *)
(* then publish_event; nothing holds the two together.  A subscription     *)
(* over IPC is three: the server writes SubscribeAck, the client reads it  *)
(* and returns, the server subscribes to its broadcast channel.            *)
(***************************************************************************)
\* caller threads
MaxCallers == 2
\* longest log of the concurrent programs
MaxRace == 2

\* the callers leave prev to the log
RaceShapes ==
    {s \in ShapesOver({PayloadAlpha, PayloadBeta}, {"none"}) :
        s.ch = "c1" /\ s.ts = 2 /\ s.prev = "none"}

\* a subscribe() call: the log length and the channel length when it
\* returned, and the receiver the transport made for it (0: none yet)
Subscription(at, returned, ret_sent, rx) ==
    [at |-> at, returned |-> returned, ret_sent |-> ret_sent, rx |-> rx]

\* self.log.append(env.clone(), &self.registry) of caller c
CallLogAppend ==
    /\ sys \in ConcurrentKinds /\ Len(log) < MaxRace
    /\ \E c \in 1..MaxCallers, s \in RaceShapes :
       \E r \in {AppendLog_append(log, Build(s, log), Registry)} :
          /\ calls[c] = None
          /\ log' = r.entries
          /\ calls' = IF r.ok THEN [calls EXCEPT ![c] = Some(Build(s, log))] ELSE calls
          /\ res' = [op |-> IF r.ok THEN "log_append" ELSE "transport_append",
                     outcome |-> r.err, out |-> <<c>>]
    /\ UNCHANGED <<sys, bvars, cfg, sent, rxs, ring, pending, client, subs>>

\* publish_event(&self.tx, self.queue_depth, env) of caller c, and its return
CallPublish ==
    /\ sys \in ConcurrentKinds
    /\ \E c \in 1..MaxCallers :
          /\ calls[c] # None
          /\ \E r \in {publish_event(sent, rxs, cfg.queue_depth, calls[c][1])} :
                /\ sent' = r.values
                /\ res' = [op |-> "transport_append", outcome |-> r.err, out |-> <<c>>]
          /\ calls' = [calls EXCEPT ![c] = None]
    /\ UNCHANGED <<sys, log, bvars, cfg, rxs, ring, pending, client, subs>>

\* queue.subscribe()
ThreadSubscribe ==
    /\ sys = "threads" /\ Len(rxs) < MaxSubs
    /\ rxs' = Sender_subscribe(sent, rxs)
    /\ subs' = Append(subs, Subscription(Len(log), TRUE, Len(sent), Len(rxs) + 1))
    /\ res' = [op |-> "subscribe", outcome |-> "Ok", out |-> <<Len(rxs) + 1>>]
    /\ UNCHANGED <<sys, log, bvars, cfg, sent, ring, pending, client, calls>>

\* handle_client on IpcRequest::Subscribe: SubscribeAck is written
IpcSubscribeAck ==
    /\ sys = "clients" /\ Len(subs) < MaxSubs
    /\ subs' = Append(subs, Subscription(0, FALSE, 0, 0))
    /\ res' = [op |-> "subscribe_ack", outcome |-> "Ok", out |-> <<Len(subs) + 1>>]
    /\ UNCHANGED <<sys, log, bvars, cfg, sent, rxs, ring, pending, client, calls>>

\* UnixIpcClient::subscribe has read the ack and returns its receiver
IpcClientReturns ==
    /\ sys = "clients"
    /\ \E i \in 1..Len(subs) :
          /\ ~subs[i].returned
          /\ subs' = [subs EXCEPT ![i].returned = TRUE, ![i].at = Len(log),
                                  ![i].ret_sent = Len(sent)]
          /\ res' = [op |-> "subscribe", outcome |-> "Ok", out |-> <<i>>]
    /\ UNCHANGED <<sys, log, bvars, cfg, sent, rxs, ring, pending, client, calls>>

\* handle_client goes on to self.broadcast.subscribe()
IpcServerSubscribes ==
    /\ sys = "clients"
    /\ \E i \in 1..Len(subs) :
          /\ subs[i].rx = 0
          /\ rxs' = Sender_subscribe(sent, rxs)
          /\ subs' = [subs EXCEPT ![i].rx = Len(rxs) + 1]
          /\ res' = [op |-> "server_subscribe", outcome |-> "Ok", out |-> <<i>>]
    /\ UNCHANGED <<sys, log, bvars, cfg, sent, ring, pending, client, calls>>

InitConcurrent ==
    \E queue_depth \in {1, MaxRace} :
       \E t \in {InVmQueue_with_log(queue_depth)} :
          /\ sys \in ConcurrentKinds
          /\ log = t.log /\ sent = t.sent /\ rxs = t.rxs /\ ring = t.ring /\ cfg = t.cfg
          /\ pending = None /\ res = NoRes /\ InitB
          /\ client = None /\ calls = [c \in 1..MaxCallers |-> None] /\ subs = <<>>

NextConcurrent ==
    \/ CallLogAppend \/ CallPublish \/ ThreadSubscribe
    \/ IpcSubscribeAck \/ IpcClientReturns \/ IpcServerSubscribes \/ Recv

SpecConcurrent == InitConcurrent /\ [][NextConcurrent]_vars

(***************************************************************************)
(* The program "publishers": an InVmQueue whose append is called from      *)
(* threads that run side by side.  publish_event reads tx.len() and then   *)
(* calls tx.send, two calls on the channel with nothing held in between.   *)
(* The channel keeps its last Channel_capacity values: a receiver that is  *)
(* further behind finds its next value overwritten and is moved on.        *)
(* calls[c] is the call of caller c: its envelope and whether the length   *)
(* check has passed.                                                       *)
(***************************************************************************)
\* longest log of the program
MaxPublished == 3

\* broadcast::channel(depth): the capacity is depth.next_power_of_two()
Channel_capacity(depth) ==
    CHOOSE p \in {Pow2(k) : k \in 0..depth} :
        p >= depth /\ \A q \in {Pow2(k) : k \in 0..depth} : q >= depth => p <= q

\* self.log.append(env.clone(), &self.registry) of caller c
PubLogAppend ==
    /\ sys = "publishers" /\ Len(log) < MaxPublished
    /\ \E c \in 1..MaxCallers, s \in RaceShapes :
       \E r \in {AppendLog_append(log, Build(s, log), Registry)} :
          /\ calls[c] = None
          /\ log' = r.entries
          /\ calls' = IF r.ok
                      THEN [calls EXCEPT ![c] = Some([env |-> Build(s, log),
                                                      checked |-> FALSE])]
                      ELSE calls
          /\ res' = [op |-> IF r.ok THEN "log_append" ELSE "transport_append",
                     outcome |-> r.err, out |-> <<c>>]
    /\ UNCHANGED <<sys, bvars, cfg, sent, rxs, ring, pending, client, subs>>

\* publish_event of caller c: `if tx.len() >= queue_depth { bail!(..) }`
PubCheck ==
    /\ sys = "publishers"
    /\ \E c \in 1..MaxCallers :
          /\ calls[c] # None /\ ~calls[c][1].checked
          /\ IF Sender_len(sent, rxs) >= cfg.queue_depth
             THEN /\ calls' = [calls EXCEPT ![c] = None]
                  /\ res' = [op |-> "transport_append", outcome |-> "Backpressure",
                             out |-> <<c>>]
             ELSE /\ calls' = [calls EXCEPT ![c] = Some([calls[c][1] EXCEPT
                                                              !.checked = TRUE])]
                  /\ res' = [op |-> "len_checked", outcome |-> "Ok", out |-> <<c>>]
    /\ UNCHANGED <<sys, log, bvars, cfg, sent, rxs, ring, pending, client, subs>>

\* publish_event of caller c: `tx.send(env)?; Ok(())`, and the append returns
PubSend ==
    /\ sys = "publishers"
    /\ \E c \in 1..MaxCallers :
          /\ calls[c] # None /\ calls[c][1].checked
          /\ \E r \in {Sender_send(sent, rxs, calls[c][1].env)} :
                /\ sent' = r.values
                /\ res' = [op |-> "transport_append", outcome |-> r.err, out |-> <<c>>]
          /\ calls' = [calls EXCEPT ![c] = None]
    /\ UNCHANGED <<sys, log, bvars, cfg, rxs, ring, pending, client, subs>>

\* queue.subscribe()
PubSubscribe ==
    /\ sys = "publishers" /\ rxs = <<>>
    /\ rxs' = Sender_subscribe(sent, rxs)
    /\ res' = [op |-> "subscribe", outcome |-> "Ok", out |-> <<1>>]
    /\ UNCHANGED <<sys, log, bvars, cfg, sent, ring, pending, xvars>>

\* rx.recv(): the next value, or Lagged(n) when the channel has overwritten it
PubRecv ==
    /\ sys = "publishers"
    /\ \E i \in 1..Len(rxs) :
          /\ rxs[i].pos < Len(sent)
          /\ IF Len(sent) - rxs[i].pos > Channel_capacity(cfg.queue_depth)
             THEN /\ rxs' = [rxs EXCEPT ![i].pos = Len(sent)
                                                    - Channel_capacity(cfg.queue_depth)]
                  /\ res' = [op |-> "recv", outcome |-> "Lagged",
                             out |-> <<i, Len(sent) - rxs[i].pos
                                             - Channel_capacity(cfg.queue_depth)>>]
             ELSE /\ rxs' = [rxs EXCEPT ![i].pos = @ + 1]
                  /\ res' = [op |-> "recv", outcome |-> "Ok",
                             out |-> <<i, sent[rxs[i].pos + 1]>>]
    /\ UNCHANGED <<sys, log, bvars, cfg, sent, ring, pending, xvars>>

InitPublishers ==
    \E queue_depth \in 1..MaxDepth :
       \E t \in {InVmQueue_with_log(queue_depth)} :
          /\ sys = "publishers"
          /\ log = t.log /\ sent = t.sent /\ rxs = t.rxs /\ ring = t.ring /\ cfg = t.cfg
          /\ pending = None /\ res = NoRes /\ InitB
          /\ client = None /\ calls = [c \in 1..MaxCallers |-> None] /\ subs = <<>>

NextPublishers == PubLogAppend \/ PubCheck \/ PubSend \/ PubSubscribe \/ PubRecv

SpecPublishers == InitPublishers /\ [][NextPublishers]_vars

(***************************************************************************)
(* The program "writers": callers that append to one AppendLog side by     *)
(* side.  A caller builds its envelope for the log it sees and calls       *)
(* append; append takes the write lock of the entries, and, holding it,    *)
(* reads the tail, fills prev in, validates and pushes.  pending is the    *)
(* holder of the lock, calls[c] the call of caller c, subs the envelopes   *)
(* of the appends that returned Ok, as submitted and in the order pushed.  *)
(***************************************************************************)
\* variant: the entries are handed out without waiting for the holder
RwLock_write_unguarded(holder) == TRUE

\* self.entries.write(): granted while nobody holds the lock
RwLock_write(holder) == holder = None

WriterShapes ==
    {s \in ShapesOver({PayloadAlpha, PayloadBeta}, {"none"}) : s.ch = "c1" /\ s.ts = 2}

\* caller c calls log.append(env, &registry)
WriterCall ==
    /\ sys = "writers" /\ Len(log) < MaxLog
    /\ \E c \in 1..MaxCallers, s \in WriterShapes :
          /\ calls[c] = None
          /\ calls' = [calls EXCEPT ![c] = Some([env |-> Build(s, log), locked |-> FALSE,
                                                 entries |-> <<>>])]
          /\ res' = [op |-> "call", outcome |-> "Ok", out |-> <<c>>]
    /\ UNCHANGED <<sys, log, bvars, cfg, sent, rxs, ring, pending, client, subs>>

\* let mut entries = self.entries.write()
WriterLock ==
    /\ sys = "writers"
    /\ \E c \in 1..MaxCallers :
          /\ calls[c] # None /\ ~calls[c][1].locked
          /\ RwLock_write(pending)
          /\ pending' = Some(c)
          /\ calls' = [calls EXCEPT ![c] = Some([calls[c][1] EXCEPT !.locked = TRUE,
                                                                    !.entries = log])]
          /\ res' = [op |-> "lock", outcome |-> "Ok", out |-> <<c>>]
    /\ UNCHANGED <<sys, log, bvars, cfg, sent, rxs, ring, client, subs>>

\* the rest of AppendLog::append on the entries the guard gave, and its return
WriterPush ==
    /\ sys = "writers"
    /\ \E c \in 1..MaxCallers :
          /\ calls[c] # None /\ calls[c][1].locked
          /\ \E r \in {AppendLog_append(calls[c][1].entries, calls[c][1].env, Registry)} :
                /\ log' = IF r.ok THEN Append(log, Last(r.entries)) ELSE log
                /\ subs' = IF r.ok THEN Append(subs, calls[c][1].env) ELSE subs
                /\ res' = [op |-> "append", outcome |-> r.err, out |-> <<c>>]
          /\ pending' = IF pending = Some(c) THEN None ELSE pending
          /\ calls' = [calls EXCEPT ![c] = None]
    /\ UNCHANGED <<sys, bvars, cfg, sent, rxs, ring, client>>

InitWriters ==
    /\ sys = "writers" /\ log = <<>> /\ res = NoRes /\ InitB
    /\ cfg = NoCfg /\ sent = <<>> /\ rxs = <<>> /\ ring = <<>> /\ pending = None
    /\ client = None /\ calls = [c \in 1..MaxCallers |-> None] /\ subs = <<>>

NextWriters == WriterCall \/ WriterLock \/ WriterPush

SpecWriters == InitWriters /\ [][NextWriters]_vars

(***************************************************************************)
(* The program "shared": processes that call bind_transport for one Unix   *)
(* socket path.  calls lists the handles handed out, "server" or "client"; *)
(* log, sent, rxs and cfg are the server's; subs lists the appends that    *)
(* were acknowledged: who appended, where, and what.                       *)
(***************************************************************************)
\* most handles bound on the path
MaxHandles == 3

\* variant: every bind removes the socket file and starts a server of its own
bind_transport_rebinding(t, handles, reachable) ==
    [t |-> UnixIpc_bind_with_log(DEFAULT_QUEUE_DEPTH), handles |-> Append(handles, "server")]

\* bind_transport, AdapterKind::UnixIpc: reachable is UnixStream::connect(&path) is Ok
bind_transport(t, handles, reachable) ==
    IF reachable
    THEN [t |-> t, handles |-> Append(handles, "client")]
    ELSE [t |-> UnixIpc_bind_with_log(DEFAULT_QUEUE_DEPTH),
          handles |-> Append(handles, "server")]

\* bind_transport(registry, cfg): a server listens once one has been started
BindTransport ==
    /\ sys = "shared" /\ Len(calls) < MaxHandles
    /\ \E r \in {bind_transport(Transport, calls, calls # <<>>)} :
        /\ log' = r.t.log /\ sent' = r.t.sent /\ rxs' = r.t.rxs /\ ring' = r.t.ring
        /\ cfg' = r.t.cfg
        /\ calls' = r.handles
        /\ res' = [op |-> "bind", outcome |-> "Ok", out |-> <<Last(r.handles)>>]
    /\ UNCHANGED <<sys, bvars, pending, client, subs>>

\* handle.append(env): UnixIpc::append, or UnixIpcClient::append answered by
\* handle_client with AppendOk or Error
SharedAppend ==
    /\ sys = "shared" /\ Len(log) < LenCap
    /\ \E c \in 1..Len(calls), s \in QueueShapes :
       \E r \in {UnixIpc_append_env(Transport, Build(s, log), Registry)} :
        /\ log' = r.t.log /\ sent' = r.t.sent
        /\ subs' = IF r.status = "AppendOk"
                   THEN Append(subs, [by |-> c, at |-> Len(log), env |-> Build(s, log)])
                   ELSE subs
        /\ res' = [op |-> "shared_append", outcome |-> r.outcome,
                   out |-> <<c, IF r.status = "AppendOk" THEN "Ok" ELSE "Err">>]
    /\ UNCHANGED <<sys, bvars, cfg, rxs, ring, pending, client, calls>>

\* handle.read(offset, limit): UnixIpc::read, or UnixIpcClient::read answered
\* by handle_client with ReadOk(items)
SharedRead ==
    /\ sys = "shared"
    /\ \E c \in 1..Len(calls), offset \in 0..Len(log), limit \in {1, MaxLog} :
        res' = [op |-> "shared_read", outcome |-> "Ok",
                out |-> <<c, offset, limit, AppendLog_read(log, offset, limit)>>]
    /\ UNCHANGED <<sys, log, bvars, tvars>>

\* the daemon's transport.subscribe() on the server it started
SharedSubscribe ==
    /\ sys = "shared" /\ calls # <<>> /\ rxs = <<>>
    /\ rxs' = Sender_subscribe(sent, rxs)
    /\ res' = [op |-> "subscribe", outcome |-> "Ok", out |-> <<1>>]
    /\ UNCHANGED <<sys, log, bvars, cfg, sent, ring, pending, xvars>>

InitShared == sys = "shared" /\ log = <<>> /\ res = NoRes /\ InitB /\ InitT0

NextShared == BindTransport \/ SharedAppend \/ SharedRead \/ SharedSubscribe

SpecShared == InitShared /\ [][NextShared]_vars

(***************************************************************************)
(* Properties                                                              *)
(***************************************************************************)
ChannelsIn(entries) == {entries[i].header.channel : i \in 1..Len(entries)}

ValidationErrors ==
    {"BodyHashMismatch", "AttestationInvalid", "AttestationRequired", "ChainBroken",
     "TimestampRegression", "InsufficientSigners", "UntrustedSigner", "UnknownChannel"}

\* C1: chain closure.  In every log built by AppendLog.append, each stored
\* envelope after the first names the hash of its predecessor as prev.
C1_ChainClosure ==
    \A i \in 2..Len(log) : log[i].header.prev = Some(envelope_hash(log[i - 1]))

\* a log of three envelopes on both channels, the last append having failed
C1_Witness ==
    /\ sys = "log" /\ Len(log) >= 3 /\ ChannelsIn(log) = {"c1", "c2"}
    /\ res.op = "append" /\ res.outcome = "ChainBroken"

\* C2: a failed validation leaves the log alone.  Whenever AppendLog.append or
\* BrainstemLedger.append returns a validation error, the log after the call is
\* the log before it, in length and in content.
C2_FailedAppendKeepsLog ==
    [][(res'.op \in {"append", "brainstem_append"} /\ res'.outcome \in ValidationErrors)
          => log' = log]_vars

\* the bare log refused a broken chain on a log of two
C2_Witness ==
    /\ sys = "log" /\ Len(log) = 2
    /\ res.op = "append" /\ res.outcome = "ChainBroken"

\* the orchestrator refused a broken chain on a log of two
C2_WitnessOrchestrator ==
    /\ sys = "brainstem" /\ Len(log) = 2
    /\ res.op = "brainstem_append" /\ res.outcome = "ChainBroken"

\* C3: the log is append-only.  Every step keeps each stored envelope where
\* read(i, 1) finds it, and changes the length by one exactly when it is a
\* successful append and not at all otherwise.
C3_AppendOnly ==
    [][/\ Len(log') = Len(log) + (IF res'.op = "append" /\ res'.outcome = "Ok" THEN 1 ELSE 0)
       /\ \A i \in 1..Len(log) : AppendLog_read(log', i - 1, 1) = <<log[i]>>]_vars

\* a read on a log that has grown to three envelopes
C3_Witness == sys = "reader" /\ Len(log) >= 3 /\ res.op = "read"

\* C4: inclusion soundness.  The receipt of every successful
\* BrainstemLedger.append verifies: folding its merkle_proof into its
\* envelope_hash along the bits of its index yields its merkle_root.
C4_ReceiptVerifies ==
    (res.op = "brainstem_append" /\ res.outcome = "Ok")
        => VerifyInclusion(res.out[1].envelope_hash, res.out[1].merkle_proof,
                           res.out[1].index, res.out[1].merkle_root)

\* a successful orchestrator append whose receipt names a hash that is not the
\* hash of the envelope stored at its index
C4_ReceiptOfUnfilled ==
    /\ res.op = "brainstem_append" /\ res.outcome = "Ok"
    /\ res.out[1].envelope_hash # envelope_hash(log[res.out[1].index + 1])

\* C5: inclusion against the current root.  Every receipt query_with_proofs
\* returns carries the index and the hash of the stored envelope and the
\* current root, and its proof folds that hash into AppendLog.merkle_root().
C5_QueryReceiptsVerify ==
    res.op = "query" =>
        LET offset == res.out[1]
            q == res.out[3]
        IN \A i \in 1..Len(q.receipts) :
            /\ q.receipts[i].index = offset + i - 1
            /\ q.receipts[i].envelope_hash = envelope_hash(log[offset + i])
            /\ q.receipts[i].merkle_root = AppendLog_merkle_root(log)[1]
            /\ VerifyInclusion(envelope_hash(log[offset + i]), q.receipts[i].merkle_proof,
                               offset + i - 1, AppendLog_merkle_root(log)[1])

\* a query of a whole log of three: the proof of the last envelope pairs it
\* with itself
C5_Witness ==
    /\ res.op = "query" /\ Len(log) = 3
    /\ Len(res.out[3].receipts) = 3
    /\ res.out[3].receipts[3].merkle_proof[1] = envelope_hash(log[3])

\* C6: replay equivalence.  The replay validator accepts, from the empty
\* state, the whole content of every log that append built under the registry.
C6_ReplayAccepts == res.op = "replay" => res.outcome = "Ok"

\* a replay of three envelopes on both channels
C6_Witness ==
    /\ res.op = "replay" /\ Len(log) >= 3 /\ ChannelsIn(log) = {"c1", "c2"}

\* C7: tamper detection.  Replaying a logged sequence one of whose payloads
\* was changed while its body_hash was kept fails with BodyHashMismatch.
C7_TamperDetected == res.op = "replay_tampered" => res.outcome = "BodyHashMismatch"

\* the tampered envelope is the second of at least three
C7_Witness == res.op = "replay_tampered" /\ res.out = <<2>> /\ Len(log) >= 3

\* the envelope a transport request carries
RequestEnvelope(req) ==
    IF sys = "grpc" THEN envelope_from_proto(req.envelope[1]).val[1] ELSE req

\* the request is one the transport's log accepts on top of entries
ValidRequest(req, entries) ==
    IF sys = "grpc"
    THEN /\ handshake_from_proto(req.handshake).err = "Ok"
         /\ verify_with_expected(cfg.attestation,
                                 handshake_from_proto(req.handshake).val[1]) = "Ok"
         /\ req.envelope # None
         /\ envelope_from_proto(req.envelope[1]).err = "Ok"
         /\ AppendLog_append(entries, RequestEnvelope(req), Registry).ok
    ELSE AppendLog_append(entries, req, Registry).ok

\* the first subscriber has not received anything since it subscribed
StalledSubscriber == rxs # <<>> /\ rxs[1].pos = rxs[1].start

\* a mailbox has a slot of the envelope's size free in its ring
RingAdmits(req) ==
    sys = "mailbox" => (BincodeLen(req) <= cfg.slot_bytes /\ Len(ring) < cfg.slots)

\* the envelopes of seq that are the submitted envelope env, whatever prev
\* they were stored with
Occurrences(seq, env) ==
    Cardinality({i \in 1..Len(seq) : [seq[i] EXCEPT !.header.prev = env.header.prev] = env})

\* C8 as stated: with queue depth d and a first subscriber that never
\* receives, an append of a valid envelope succeeds while fewer than d
\* envelopes were accepted since it subscribed, and the next one returns
\* Backpressure, on every transport.
C8_BackpressureAtDepthAnyTransport ==
    [][(res'.op = "transport_append" /\ StalledSubscriber
            /\ ValidRequest(res'.out[1], log))
          => res'.outcome = IF Len(sent) - rxs[1].start < cfg.queue_depth
                            THEN "Ok" ELSE "Backpressure"]_vars

\* C8, amended: the same, a mailbox being held to it only while its ring has
\* a free slot that the envelope fits.
C8_BackpressureAtDepth ==
    [][(res'.op = "transport_append" /\ StalledSubscriber
            /\ ValidRequest(res'.out[1], log) /\ RingAdmits(res'.out[1]))
          => res'.outcome = IF Len(sent) - rxs[1].start < cfg.queue_depth
                            THEN "Ok" ELSE "Backpressure"]_vars

\* depth 2: two envelopes queued for a subscriber that has received nothing,
\* and the third append refused
C8_Witness ==
    /\ cfg.queue_depth = 2 /\ StalledSubscriber /\ rxs[1].start = 0 /\ Len(sent) = 2
    /\ res.op = "transport_append" /\ res.outcome = "Backpressure"

\* C9: an append that returns Backpressure does not commit: the transport's
\* log after the call is the log before it.
C9_BackpressureKeepsLog ==
    [][(res'.op \in {"transport_append", "transport_retry"}
            /\ res'.outcome = "Backpressure") => log' = log]_vars

\* the envelope refused with Backpressure is the tail of the log
C9_Committed ==
    /\ res.op = "transport_append" /\ res.outcome = "Backpressure"
    /\ log # <<>> /\ Occurrences(<<Last(log)>>, RequestEnvelope(res.out[1])) = 1

\* C10: Backpressure is retriable.  When the request that met Backpressure is
\* re-submitted after the subscribers drained the queue, the append succeeds,
\* and the envelope is then once in the log and once in what the channel
\* delivers.
C10_RetrySucceeds ==
    res.op = "transport_retry" =>
        /\ res.outcome = "Ok"
        /\ Occurrences(log, RequestEnvelope(res.out[1])) = 1
        /\ Occurrences(sent, RequestEnvelope(res.out[1])) = 1

\* a retry after the drain that the log refused
C10_RetryRefused ==
    /\ res.op = "transport_retry" /\ res.outcome \in ValidationErrors
    /\ Occurrences(sent, RequestEnvelope(res.out[1])) = 0

\* what the request's handshake presents, when it presents anything
PresentedIn(req) == handshake_from_proto(req.handshake).val[1][1].presented

Presents(req) ==
    /\ req.handshake # None
    /\ handshake_from_proto(req.handshake).err = "Ok"
    /\ PresentedIn(req) # None

\* the attestation misses what the server's template expects
Mismatched(expected, att) ==
    \/ /\ expected.expected_statement_hash # None
       /\ hash_attestation_statement(att.statement) # expected.expected_statement_hash[1]
    \/ /\ expected.expected_runtime_id # None
       /\ att.statement.kind = "Runtime"
       /\ att.statement.runtime_id # expected.expected_runtime_id[1]

RpcOps == {"transport_append", "transport_retry", "remote_read", "subscribe"}

\* C11: on the remote server an Append, Read or Subscribe RPC presenting an
\* attestation whose statement hashes to something else than the expected
\* statement hash, or a Runtime attestation with another runtime id than the
\* expected one, is answered PermissionDenied; it reads nothing, and the log,
\* the channel and the receivers stay as they were.
C11_MismatchDenied ==
    [][(sys = "grpc" /\ res'.op \in RpcOps /\ cfg.attestation # None
            /\ Presents(res'.out[1])
            /\ Mismatched(cfg.attestation[1], PresentedIn(res'.out[1])[1]))
          => /\ res'.out[2] = "PermissionDenied"
             /\ log' = log /\ sent' = sent /\ rxs' = rxs
             /\ (res'.op = "remote_read" => res'.out[3] = <<>>)]_vars

\* a read of a non-empty log refused for the statement the caller presents
C11_Witness ==
    /\ sys = "grpc" /\ cfg.attestation = Some(TemplateH) /\ log # <<>>
    /\ res.op = "remote_read" /\ res.out[2] = "PermissionDenied"
    /\ Presents(res.out[1])

\* the handshake expects something and presents nothing
Unpresented(h) ==
    /\ h.presented = None
    /\ (h.expected_runtime_id # None \/ h.expected_statement_hash # None)

\* the handshake the running adapter was constructed with
BoundHandshake == IF sys = "adapter" THEN client[1].attestation ELSE cfg.attestation

\* C12: no Loopback, Mailbox or remote client exists that was constructed
\* with a handshake that sets expected_runtime_id or expected_statement_hash
\* and presents no attestation: the construction fails, so nothing is served
\* under such a handshake.
C12_UnpresentedDenied ==
    (sys \in {"loopback", "mailbox", "adapter"} /\ BoundHandshake # None)
        => ~Unpresented(BoundHandshake[1])

\* a Loopback or Mailbox constructed with such a handshake has accepted an
\* append and delivered the envelope to a subscriber
C12_ServedUnpresented ==
    /\ sys \in {"loopback", "mailbox"} /\ cfg.attestation # None
    /\ Unpresented(cfg.attestation[1])
    /\ log # <<>> /\ res.op = "recv"

\* the submitted envelope env is what is stored as e: the log stores it with
\* prev filled in
StoredAs(env, e) == [e EXCEPT !.header.prev = env.header.prev] = env

\* C13: broadcast order is log order.  Whatever a subscriber that subscribed
\* at log length n can receive is, in order, the envelopes stored at the log
\* indices n, n+1, ..., with any number of callers appending side by side.
C13_BroadcastInLogOrder ==
    \A i \in 1..Len(subs) :
        (subs[i].returned /\ subs[i].rx # 0) =>
            \A k \in 1..(Len(sent) - rxs[subs[i].rx].start) :
                /\ subs[i].at + k <= Len(log)
                /\ StoredAs(sent[rxs[subs[i].rx].start + k], log[subs[i].at + k])

\* two callers of an InVmQueue, both answered Ok, whose envelopes a
\* subscriber from log length 0 is sent in the reverse of their log order
C13_Overtaken ==
    /\ sys = "threads" /\ Len(subs) >= 1 /\ subs[1].at = 0 /\ rxs[1].start = 0
    /\ Len(log) = 2 /\ Len(sent) = 2 /\ calls = [c \in 1..MaxCallers |-> None]
    /\ log[1] # log[2]
    /\ StoredAs(sent[1], log[2]) /\ StoredAs(sent[2], log[1])

\* C14: delivery after subscription.  Once a subscribe() call has returned,
\* every envelope the channel accepts from then on, which is every envelope
\* whose append then completes successfully, lies in the range of the receiver
\* made for that call; over Unix IPC the call returns when the client has read
\* SubscribeAck.
C14_DeliversAfterSubscribe ==
    \A i \in 1..Len(subs) :
        subs[i].returned =>
            IF subs[i].rx = 0 THEN Len(sent) = subs[i].ret_sent
            ELSE rxs[subs[i].rx].start <= subs[i].ret_sent

\* an IPC client whose subscribe() returned before an envelope was appended
\* and published, and whose receiver on the server starts after that envelope
C14_MissedOverIpc ==
    /\ sys = "clients"
    /\ \E i \in 1..Len(subs) :
          /\ subs[i].returned /\ subs[i].rx # 0
          /\ rxs[subs[i].rx].start > subs[i].ret_sent
          /\ Len(log) > subs[i].at

\* the payload is an object with the top-level key
HasKey(payload, key) == payload.is_object /\ \E m \in payload.members : m[1] = key

ReservedPayload(payload) == HasKey(payload, "dynamic_code") \/ HasKey(payload, "shared_memory")

\* envelopes with a reserved payload, otherwise well formed or not
ReservedShapes == {s \in BrainRichShapes : ReservedPayload(s.p)}

\* C15: at every state of the orchestrator, BrainstemLedger.append of an
\* envelope whose payload is an object with the key dynamic_code or
\* shared_memory ends with InvariantViolation and leaves the log as long as
\* it was; and no stored envelope has such a payload.
C15_ReservedRejected ==
    sys = "brainstem" =>
        /\ \A i \in 1..Len(log) : ~ReservedPayload(log[i].body.payload)
        /\ \A s \in ReservedShapes :
              \A r \in {BrainstemLedger_append(Ledger, Build(s, log), Registry,
                                                MaxPayloadBytes, TRUE)} :
                 /\ r.outcome = "InvariantViolation"
                 /\ AppendLog_len(r.ledger.log) = AppendLog_len(log)

\* the orchestrator refused a shared_memory payload on a non-empty log
C15_Witness ==
    /\ sys = "brainstem" /\ Len(log) = 1 /\ res.op = "brainstem_append"
    /\ res.outcome = "InvariantViolation"
    /\ res.out = <<"shared memory references are not permitted">>

\* C16: every BrainstemLedger.append that fails with a Validation error or
\* with InvariantViolation leaves the alert list at least one alert longer,
\* and no step takes an alert away.
C16_FailureAlerts ==
    [][/\ Len(alerts') >= Len(alerts)
       /\ SubSeq(alerts', 1, Len(alerts)) = alerts
       /\ (res'.op = "brainstem_append"
              /\ res'.outcome \in ValidationErrors \cup {"InvariantViolation"})
            => Len(alerts') > Len(alerts)]_vars

\* the validator refused a broken chain and the alert list is still empty
C16_SilentFailure ==
    /\ sys = "brainstem" /\ log # <<>> /\ res.op = "brainstem_append"
    /\ res.outcome = "ChainBroken" /\ alerts = <<>>

\* the members of a set of numbers in ascending order
RECURSIVE Ascending(_)
Ascending(S) ==
    IF S = {} THEN <<>>
    ELSE LET m == CHOOSE x \in S : \A y \in S : x <= y
         IN <<m>> \o Ascending(S \ {m})

\* the payload has a string field domain equal to d
DomainIs(payload, d) ==
    /\ payload.is_object
    /\ \E m \in payload.members : m[1] = "domain" /\ m[2] = "string" /\ m[3] = d

\* C17: after any sequence of orchestrator appends, failed ones included,
\* offsets_for_channel(c) is the ascending list of the log indices whose
\* envelope is on channel c and offsets_for_domain(d) the ascending list of
\* those whose payload has the string field domain = d.
C17_IndexMatchesLog ==
    sys = "brainstem" =>
        /\ \A c \in {"c1", "c2", "cx"} :
              offsets_for_channel(index, c)
                  = Ascending({i - 1 : i \in {j \in 1..Len(log) : log[j].header.channel = c}})
        /\ \A d \in {"alpha", "beta", "7", "hello"} :
              offsets_for_domain(index, d)
                  = Ascending({i - 1 : i \in {j \in 1..Len(log) :
                                                 DomainIs(log[j].body.payload, d)}})

\* domains alpha, beta, alpha at indices 0, 1, 2, after a failed append
C17_Witness ==
    /\ sys = "brainstem" /\ Len(log) = 3
    /\ offsets_for_domain(index, "alpha") = <<0, 2>>
    /\ offsets_for_domain(index, "beta") = <<1>>
    /\ alerts # <<>>

\* C18: in every log built through append, by the bare log or by the
\* orchestrator, the envelopes of a channel whose policy has
\* enforce_timestamp_ordering carry non-decreasing timestamps in log order,
\* whatever other channels are interleaved with it.
C18_ChannelTimestampsOrdered ==
    \A i \in 1..Len(log) : \A j \in (i + 1)..Len(log) :
        (/\ log[i].header.channel = log[j].header.channel
         /\ Registry[log[i].header.channel].enforce_timestamp_ordering)
            => log[i].header.timestamp <= log[j].header.timestamp

\* the orchestrator stored timestamp 1 on the ordered channel c1 after
\* timestamp 2, an envelope of channel c2 with timestamp 1 lying between
C18_Regressed ==
    /\ sys = "brainstem" /\ Len(log) = 3
    /\ log[1].header.channel = "c1" /\ log[1].header.timestamp = 2
    /\ log[2].header.channel = "c2" /\ log[2].header.timestamp = 1
    /\ log[3].header.channel = "c1" /\ log[3].header.timestamp = 1
    /\ res.op = "brainstem_append" /\ res.outcome = "Ok"

\* the keys whose signature on the envelope verifies over its envelope hash
ValidSigners(env) ==
    {env.signatures[k].signer : k \in
        {n \in 1..Len(env.signatures) :
            Verify(env.signatures[n].signer, envelope_hash(env), env.signatures[n].signature)}}

UnchainedShapes(entries) ==
    {s \in ShapesOver({PayloadAlpha, PayloadBeta}, {"signed_as_submitted"}) :
        /\ s.ch = "c1" /\ s.prev = "none"
        /\ (entries # <<>> => s.ts >= Last(entries).header.timestamp)}

\* C20: the orchestrator, its log not empty, accepts an envelope that an
\* allowed signer signed correctly and submitted with header.prev = None, and
\* stores it with header.prev = Some(envelope_hash(previous tail)).
C20_UnchainedAccepted ==
    (sys = "brainstem" /\ log # <<>>) =>
        \A s \in UnchainedShapes(log) :
        \A r \in {BrainstemLedger_append(Ledger, Build(s, log), Registry,
                                          MaxPayloadBytes, TRUE)} :
            /\ r.outcome = "Ok"
            /\ Last(r.ledger.log).header.prev = Some(envelope_hash(Last(log)))

\* the orchestrator, holding one envelope, has just refused an append for its
\* signatures, and refuses so the envelope signed without prev
C20_UnchainedRefused ==
    /\ sys = "brainstem" /\ Len(log) = 1
    /\ res.op = "brainstem_append" /\ res.outcome \in ValidationErrors
    /\ \E s \in UnchainedShapes(log) :
          /\ Verify("K1", envelope_hash(Build(s, log)), Build(s, log).signatures[1].signature)
          /\ BrainstemLedger_append(Ledger, Build(s, log), Registry,
                                    MaxPayloadBytes, TRUE).detail = res.outcome

\* C21: putting a payload again, however often and whatever the disk then does,
\* returns the digest of the first put, writes nothing more, leaves one object
\* under the digest, and get of the digest returns the payload's bytes
C21_PutIdempotent ==
    sys = "cas" =>
        \A payload \in BrainPayloads : \A io1, io2, io3 \in BOOLEAN :
            LET r1 == CAS_put(store, payload, MaxPayloadBytes, io1)
                r2 == CAS_put(r1.files, payload, MaxPayloadBytes, io2)
                r3 == CAS_put(r2.files, payload, MaxPayloadBytes, io3)
            IN r1.err = "Ok" =>
                /\ r2.err = "Ok" /\ r3.err = "Ok"
                /\ r2.hash = r1.hash /\ r3.hash = r1.hash
                /\ r1.writes + r2.writes + r3.writes <= 1
                /\ Cardinality({f \in r3.files : f[1] = r1.hash[1]}) = 1
                /\ CAS_get(r3.files, r1.hash[1]) = Some(ToVec(payload))

\* a payload was put again into a store that already held it
C21_Witness ==
    /\ sys = "cas"
    /\ res.op = "cas_put" /\ res.outcome = "Ok" /\ res.out.writes = 0
    /\ CAS_get(store, res.out.hash[1]) = Some(ToVec(res.out.payload))
    /\ Cardinality(store) >= 2
\* C22: read(offset, limit) returns the stored envelopes at indices offset up to
\* min(offset + limit, len) - 1 in log order, returns the empty list when
\* offset >= len, and leaves the log as it was
C22_ReadIsSlice ==
    [][res'.op = "read" =>
        LET offset == res'.out[1]
            limit == res'.out[2]
            got == res'.out[3]
            hi == IF offset + limit < Len(log) THEN offset + limit ELSE Len(log)
        IN /\ res'.outcome = "Ok"
           /\ log' = log
           /\ offset >= Len(log) => got = <<>>
           /\ got = SubSeq(log, offset + 1, hi)]_vars

\* a read that was cut short by the end of the log
C22_Witness ==
    /\ sys = "reader" /\ res.op = "read"
    /\ res.out[1] < Len(log) /\ res.out[1] + res.out[2] > Len(log)
    /\ Len(res.out[3]) = Len(log) - res.out[1]
\* the tree of height h over the leaves l, from the top down: the left half
\* holds the first 2^(h-1) leaves, and a half that has no leaves repeats the
\* other half
RECURSIVE TreeOver(_, _)
TreeOver(l, h) ==
    IF h = 0 THEN l[1]
    ELSE IF Len(l) <= Pow2(h - 1)
    THEN H_merkle(TreeOver(l, h - 1), TreeOver(l, h - 1))
    ELSE H_merkle(TreeOver(SubSeq(l, 1, Pow2(h - 1)), h - 1),
                  TreeOver(SubSeq(l, Pow2(h - 1) + 1, Len(l)), h - 1))

\* its root: the tree of the least height that has room for the leaves
TreeRoot(l) ==
    TreeOver(l, CHOOSE h \in 0..Len(l) :
                    Pow2(h) >= Len(l) /\ \A g \in 0..(h - 1) : Pow2(g) < Len(l))

\* C23: merkle_root() is None iff the log is empty, otherwise the root of the
\* tree over the envelope hashes with an odd last node paired with itself; a
\* one-entry log has its leaf as root and an empty proof, a two-entry log has
\* root H_merkle(l0, l1) and proof [l0] for index 1
C23_MerkleRoot ==
    sys = "auditor" =>
        LET l == [i \in 1..Len(log) |-> envelope_hash(log[i])]
        IN /\ (AppendLog_merkle_root(log) = None) <=> (log = <<>>)
           /\ log # <<>> => AppendLog_merkle_root(log) = Some(TreeRoot(l))
           /\ Len(log) = 1 => /\ AppendLog_merkle_root(log) = Some(l[1])
                              /\ merkle_proof_for(log, 0) = <<>>
           /\ Len(log) = 2 => /\ AppendLog_merkle_root(log) = Some(H_merkle(l[1], l[2]))
                              /\ merkle_proof_for(log, 1) = <<l[1]>>
           /\ res.op = "query" =>
                /\ res.out[3].merkle_root = AppendLog_merkle_root(log)
                /\ \A i \in 1..Len(res.out[3].receipts) :
                     Len(log) <= 2 =>
                        res.out[3].receipts[i].merkle_proof
                            = IF Len(log) = 1 THEN <<>>
                              ELSE <<l[2 - res.out[3].receipts[i].index]>>

\* a query answered with the root of a three-entry log, its last leaf paired
\* with itself
C23_Witness ==
    /\ sys = "auditor" /\ res.op = "query" /\ Len(log) = 3
    /\ res.out[3].merkle_root
         = Some(H_merkle(H_merkle(envelope_hash(log[1]), envelope_hash(log[2])),
                         H_merkle(envelope_hash(log[3]), envelope_hash(log[3]))))
\* C24: maybe_checkpoint(log, interval) returns Some({length: len, root:
\* merkle_root}) and sets last_len = len exactly when the log is non-empty and
\* len >= last_len + interval, otherwise returns None and keeps last_len; with
\* interval >= 1 a checkpoint is longer than the one before by at least interval
C24_CheckpointWhenAdvanced ==
    [][res'.op = "checkpoint" =>
        LET interval == res'.out[1]
            cp == res'.out[2]
            len == Len(log)
        IN /\ log' = log
           /\ IF len > 0 /\ len >= cp_last_len + interval
              THEN /\ cp = Some([length |-> len, root |-> AppendLog_merkle_root(log)[1]])
                   /\ cp_last_len' = len
              ELSE cp = None /\ cp_last_len' = cp_last_len
           /\ (cp # None /\ interval >= 1) =>
                /\ cp[1].length > cp_last_len
                /\ cp[1].length - cp_last_len >= interval]_vars

\* a second checkpoint, two envelopes after a first one of length 2
C24_Witness ==
    /\ sys = "writer" /\ res.op = "checkpoint"
    /\ res.out[1] = 2 /\ res.out[2] # None /\ res.out[2][1].length = 4
    /\ res.out[3] = 2 /\ cp_last_len = 4
\* C25: the orchestrator's writer produces a checkpoint only when the log has
\* grown by at least the checkpoint_interval given to BrainstemLedger::new
\* since the previous checkpoint
C25_CheckpointsAtInterval ==
    [][(sys = "brainstem" /\ cp_last_len' # cp_last_len)
        => Len(log') >= cp_last_len + CheckpointInterval]_vars

\* a successful append after which the writer holds a checkpoint of the whole
\* log, one envelope after the checkpoint before
C25_CheckpointEveryAppend ==
    /\ sys = "brainstem"
    /\ res.op = "brainstem_append" /\ res.outcome = "Ok"
    /\ Len(log) = 2 /\ cp_last_len = 2
    /\ CheckpointInterval > 1
\* C26: a mailbox append of an envelope whose serialization exceeds slot_bytes
\* returns an error; one that meets a ring already holding slot_count
\* envelopes returns an error, "buffer full" when the envelope fits and the log
\* takes it; the ring never holds more than slot_count envelopes and every
\* envelope it holds stays where it is
C26_MailboxLimits ==
    [][sys = "mailbox" =>
        /\ Len(ring') <= cfg.slots
        /\ Len(ring') >= Len(ring) /\ SubSeq(ring', 1, Len(ring)) = ring
        /\ res'.op \in {"transport_append", "transport_retry"} =>
            LET env == res'.out[1]
            IN /\ BincodeLen(env) > cfg.slot_bytes =>
                    /\ res'.outcome = "SlotExceeded" /\ res'.out[2] = "Err"
                    /\ ring' = ring /\ log' = log
               /\ Len(ring) = cfg.slots =>
                    /\ res'.out[2] = "Err" /\ ring' = ring
                    /\ (BincodeLen(env) <= cfg.slot_bytes /\ ValidRequest(env, log))
                            => res'.outcome = "BufferFull"
               /\ res'.outcome = "BufferFull" => Len(ring) = cfg.slots]_vars

\* a one-slot mailbox holding an envelope refused the next one as the
\* repository's test mailbox_overflow_errors has it
C26_Witness ==
    /\ sys = "mailbox" /\ cfg.slots = 1 /\ Len(ring) = 1
    /\ res.op = "transport_append" /\ res.outcome = "BufferFull"
    /\ BincodeLen(res.out[1]) <= cfg.slot_bytes
    /\ ring[1] # res.out[1]
C28_AppendWithoutSubscriber ==
    [][(/\ sys \in {"invm", "loopback"}
        /\ res'.op = "transport_append"
        /\ rxs = <<>>
        /\ ValidRequest(res'.out[1], log))
        => /\ res'.outcome = "Ok" /\ res'.out[2] = "Ok"
           /\ Len(AppendLog_read(log', Len(log), 1)) = 1
           /\ StoredAs(res'.out[1], AppendLog_read(log', Len(log), 1)[1])]_vars

\* a queue nobody subscribed to answered the append of a valid envelope with
\* the channel's send error, the envelope being readable at its offset
C28_RefusedWithoutSubscriber ==
    /\ sys \in {"invm", "loopback"} /\ rxs = <<>>
    /\ res.op = "transport_append" /\ res.outcome = "SendError" /\ res.out[2] = "Err"
    /\ Len(log) = 1
    /\ StoredAs(res.out[1], AppendLog_read(log, 0, 1)[1])
\* the log that appending the envelopes of seq one after the other builds
RECURSIVE Sequentially(_)
Sequentially(seq) ==
    IF seq = <<>> THEN <<>>
    ELSE AppendLog_append(Sequentially(SubSeq(seq, 1, Len(seq) - 1)), Last(seq),
                          Registry).entries

\* C29: with callers appending side by side, the log is what the successful
\* appends build when made one after the other in some order, no two stored
\* envelopes name the same prev, and each stored envelope after the first
\* names the hash of the one before it
C29_AppendsSerialize ==
    sys = "writers" =>
        /\ Len(subs) = Len(log)
        /\ log = Sequentially(subs)
        /\ \A i, j \in 1..Len(log) : i # j => log[i].header.prev # log[j].header.prev
        /\ log # <<>> => log[1].header.prev = None
        /\ \A i \in 1..(Len(log) - 1) :
              log[i + 1].header.prev = Some(envelope_hash(log[i]))

\* an append returned Ok on a log of two while another caller, whose envelope
\* names the tail it saw before that push, was waiting for the lock
C29_Witness ==
    /\ sys = "writers" /\ Len(log) >= 2
    /\ res.op = "append" /\ res.outcome = "Ok"
    /\ \E c \in 1..MaxCallers :
          /\ c # res.out[1] /\ calls[c] # None /\ ~calls[c][1].locked
          /\ calls[c][1].env.header.prev = Some(envelope_hash(log[Len(log) - 1]))
\* C30: the receipt of every successful BrainstemLedger.append carries as
\* index the log length before the call and as envelope_hash the hash of the
\* envelope stored at that index, also when prev was submitted as None and
\* filled in by the orchestrator
C30_ReceiptNamesStored ==
    [][(sys = "brainstem" /\ res'.op = "brainstem_append" /\ res'.outcome = "Ok")
        => /\ res'.out[1].index = Len(log)
           /\ Len(log') = Len(log) + 1
           /\ res'.out[1].envelope_hash = envelope_hash(log'[Len(log) + 1])]_vars

\* a receipt with the right index whose hash is that of the envelope as it
\* was submitted, prev = None, while the log stores it with prev filled in
C30_ReceiptNamesSubmitted ==
    /\ sys = "brainstem" /\ res.op = "brainstem_append" /\ res.outcome = "Ok"
    /\ res.out[1].index = Len(log) - 1 /\ Len(log) >= 2
    /\ Last(log).header.prev # None
    /\ res.out[1].envelope_hash = envelope_hash([Last(log) EXCEPT !.header.prev = None])
\* C31: with callers appending side by side, the envelopes sent on the
\* broadcast channel and not yet received by a subscriber never number more
\* than queue_depth, so none of them is overwritten before that subscriber
\* has received it
C31_ChannelWithinDepth ==
    sys = "publishers" =>
        /\ \A i \in 1..Len(rxs) : Len(sent) - rxs[i].pos <= cfg.queue_depth
        /\ res.op = "recv" => res.outcome = "Ok"

\* on a queue of depth 1 two appends returned Ok and the subscriber, who had
\* subscribed before both, was told it lagged: the first envelope was gone
C31_OverwrittenUnreceived ==
    /\ sys = "publishers" /\ cfg.queue_depth = 1
    /\ Len(sent) = 2 /\ rxs # <<>> /\ rxs[1].start = 0
    /\ res.op = "recv" /\ res.outcome = "Lagged" /\ res.out[2] = 1
\* the template expects a runtime id or a statement hash
Expects(h) == h.expected_runtime_id # None \/ h.expected_statement_hash # None

\* C32: an RPC that carries no handshake, or a handshake presenting no
\* attestation, is answered PermissionDenied whenever the server's template
\* sets expected_runtime_id or expected_statement_hash, whether or not the
\* template holds a presented attestation of its own; nothing is appended
\* and nobody is subscribed
C32_UnattestedRpcDenied ==
    [][(/\ sys = "adapter" /\ res'.op \in {"transport_append", "subscribe"}
        /\ cfg.attestation # None /\ Expects(cfg.attestation[1])
        /\ (client[1].attestation = None \/ client[1].attestation[1].presented = None))
        => /\ Last(res'.out) = "PermissionDenied"
           /\ log' = log /\ rxs' = rxs]_vars

\* a server whose template expects enclave-A and holds an attestation of its
\* own stored the envelope of a client that sent no handshake
C32_ServedWithoutHandshake ==
    /\ sys = "adapter" /\ cfg.attestation # None
    /\ Expects(cfg.attestation[1]) /\ cfg.attestation[1].presented # None
    /\ client[1].attestation = None
    /\ res.op = "transport_append" /\ Last(res.out) # "PermissionDenied"
    /\ Len(log) = 1 /\ StoredAs(res.out[1], log[1])
\* C33: a transport bound with a handshake that sets expected_runtime_id and
\* presents an attestation exists only if that attestation is a Runtime
\* attestation with that runtime id: a Build, Policy or Custom attestation
\* does not pass
C33_RuntimeIdNeedsRuntime ==
    (/\ sys \in {"loopback", "mailbox", "adapter"} /\ BoundHandshake # None
     /\ BoundHandshake[1].expected_runtime_id # None
     /\ BoundHandshake[1].presented # None)
        => /\ BoundHandshake[1].presented[1].statement.kind = "Runtime"
           /\ BoundHandshake[1].presented[1].statement.runtime_id
                = BoundHandshake[1].expected_runtime_id[1]

\* a Loopback whose handshake expects runtime enclave-A and presents a Build
\* attestation was constructed and has taken an append
C33_BuildPassedForRuntime ==
    /\ sys = "loopback" /\ cfg.attestation # None
    /\ cfg.attestation[1].expected_runtime_id = Some("enclave-A")
    /\ cfg.attestation[1].presented # None
    /\ cfg.attestation[1].presented[1].statement.kind = "Build"
    /\ AttestationHandshake_verify(cfg.attestation[1]) = "Ok"
    /\ res.op = "transport_append" /\ log # <<>>
\* C34: a MailboxTransport.append rejected because the envelope exceeds
\* slot_bytes or because the ring is full leaves the transport's log as it was
\* and sends nothing to the subscribers
C34_RejectedMailboxAppendInert ==
    [][(/\ sys = "mailbox"
        /\ res'.op \in {"transport_append", "transport_retry"}
        /\ res'.outcome \in {"SlotExceeded", "BufferFull"})
            => log' = log /\ sent' = sent]_vars

\* the append that met the full ring of a one-slot mailbox is the last entry
\* of the log, which now holds more envelopes than the ring
C34_FullRingCommitted ==
    /\ sys = "mailbox" /\ cfg.slots = 1 /\ Len(ring) = 1
    /\ res.op = "transport_append" /\ res.outcome = "BufferFull"
    /\ Len(log) = 2 /\ Last(log) = RequestEnvelope(res.out[1])
    /\ \A k \in 1..Len(ring) : ring[k] # res.out[1]
\* the ledger would take env if its store had room for any payload
WithinAnyLimit(env) ==
    BrainstemLedger_append(Ledger, env, Registry, 4 * MaxPayloadBytes, TRUE).outcome = "Ok"

\* C35: an orchestrator append whose payload serializes to more than
\* max_bytes fails and leaves the log, the domain index, the CAS and the
\* checkpoint writer as they were; when the envelope passes the checks that
\* come before the CAS put, the error is InvariantViolation, raised by the put
C35_OversizeRejected ==
    sys = "brainstem" =>
        \A s \in BrainShapes(log) : \A io_ok \in BOOLEAN :
           \A r \in {BrainstemLedger_append(Ledger, Build(s, log), Registry,
                                             MaxPayloadBytes, io_ok)} :
              ByteLen(Build(s, log).body.payload) > MaxPayloadBytes =>
                 /\ r.outcome # "Ok" /\ r.receipt = None
                 /\ r.ledger.log = log /\ r.ledger.index = index
                 /\ r.ledger.store = store /\ r.ledger.cp_last_len = cp_last_len
                 /\ WithinAnyLimit(Build(s, log)) =>
                        r.outcome = "InvariantViolation" /\ r.detail = "store"

\* an oversize payload was refused by the put of a ledger that already holds
\* an envelope and its payload
C35_Witness ==
    /\ sys = "brainstem" /\ res.op = "brainstem_append"
    /\ res.outcome = "InvariantViolation" /\ res.out = <<"store">>
    /\ Len(log) = 1 /\ Cardinality(store) = 1 /\ cp_last_len = 1
    /\ \E s \in BrainShapes(log) :
          /\ WithinAnyLimit(Build(s, log))
          /\ ByteLen(Build(s, log).body.payload) > MaxPayloadBytes
\* the error of the first step of append that fails on env0, the steps taken
\* in the order reserved-key invariants, body-hash self-check, attestation
\* statement-hash self-check, validator, CAS put; <<"Ok", "Ok">> when none fails
FirstFailure(env0, io_ok) ==
    LET prior == [last_hash |-> TailHash(log),
                  last_timestamp |-> IF log = <<>> THEN None
                                     ELSE Some(Last(log).header.timestamp)]
        env == IF env0.header.prev = None
               THEN [env0 EXCEPT !.header.prev = TailHash(log)] ELSE env0
        v == validate_envelope(env, Registry, prior)
        put == CAS_put(store, env0.body.payload, MaxPayloadBytes, io_ok)
    IN IF ReservedPayload(env0.body.payload)
       THEN <<"InvariantViolation", enforce_invariants(env0.body.payload)>>
       ELSE IF hash_body(env0.body) # env0.header.body_hash
       THEN <<"Validation", "BodyHashMismatch">>
       ELSE IF \E i \in 1..Len(env0.attestations) :
                  hash_attestation_statement(env0.attestations[i].statement)
                      # env0.attestations[i].statement_hash
       THEN <<"Validation", "AttestationInvalid">>
       ELSE IF ~v.ok THEN <<"Validation", v.err>>
       ELSE IF put.err # "Ok" THEN <<put.err, "store">>
       ELSE <<"Ok", "Ok">>

\* C36: BrainstemLedger.append returns the error of the first failing step in
\* the order reserved-key invariants, body-hash self-check, attestation
\* statement-hash self-check, validator, CAS put; in particular a payload with
\* a reserved key and a wrong body_hash yields InvariantViolation
C36_FirstFailingStep ==
    sys = "brainstem" =>
        \A s \in BrainShapes(log) : \A io_ok \in BOOLEAN :
           \A r \in {BrainstemLedger_append(Ledger, Build(s, log), Registry,
                                             MaxPayloadBytes, io_ok)} :
              /\ <<r.outcome, r.detail>> = FirstFailure(Build(s, log), io_ok)
              /\ (/\ ReservedPayload(Build(s, log).body.payload)
                  /\ hash_body(Build(s, log).body) # Build(s, log).header.body_hash)
                    => /\ r.outcome = "InvariantViolation"
                       /\ r.ledger.alerts = alerts

\* an envelope with a reserved key and a wrong body_hash is among the
\* submissions, and the last append was refused for the reserved key by a
\* ledger that holds an envelope and has recorded no alert
C36_Witness ==
    /\ sys = "brainstem" /\ res.op = "brainstem_append"
    /\ res.outcome = "InvariantViolation"
    /\ res.out = <<"dynamic code payloads are not permitted">>
    /\ Len(log) = 1 /\ alerts = <<>>
    /\ \E s \in BrainShapes(log) :
          /\ HasKey(Build(s, log).body.payload, "dynamic_code")
          /\ hash_body(Build(s, log).body) # Build(s, log).header.body_hash
          /\ FirstFailure(Build(s, log), TRUE) = <<res.outcome, res.out[1]>>
\* C37: envelope_from_proto(envelope_to_proto(e)) succeeds and gives back e
\* for every envelope e, with prev and payload_type absent, present or empty
C37_ProtoRoundTrip ==
    (sys = "codec" /\ res.op = "envelope_from_proto")
        => res.outcome = "Ok" /\ res.out = <<calls[1]>>

\* an envelope with payload_type Some("") whose body_hash is the hash of its
\* body arrived with payload_type None and a body that no longer hashes to
\* its body_hash
C37_EmptyTypeBecomesNone ==
    /\ sys = "codec" /\ res.op = "envelope_from_proto" /\ res.outcome = "Ok"
    /\ calls[1].body.payload_type = Some("")
    /\ hash_body(calls[1].body) = calls[1].header.body_hash
    /\ res.out[1].body.payload_type = None
    /\ res.out[1].header = calls[1].header
    /\ hash_body(res.out[1].body) # res.out[1].header.body_hash
    /\ envelope_hash(res.out[1]) # envelope_hash(calls[1])
\* C38: whenever the orchestrator's checkpoint writer emits a checkpoint
\* during an append, the checkpoint's length is receipt.index + 1 and its root
\* is the receipt's merkle_root, so the "checkpoint root drift" warning is
\* never reached
C38_CheckpointMatchesReceipt ==
    sys = "brainstem" =>
        \A s \in BrainShapes(log) : \A io_ok \in BOOLEAN :
           \A r \in {BrainstemLedger_append(Ledger, Build(s, log), Registry,
                                             MaxPayloadBytes, io_ok)} :
              r.checkpoint # None =>
                 /\ r.receipt # None
                 /\ r.checkpoint[1].length = r.receipt[1].index + 1
                 /\ r.checkpoint[1].root = r.receipt[1].merkle_root

\* the second append returned the receipt of index 1 and the writer, which
\* stood at 1, emitted the checkpoint of length 2 with the receipt's root
C38_Witness ==
    /\ sys = "brainstem" /\ res.op = "brainstem_append" /\ res.outcome = "Ok"
    /\ Len(log) = 2 /\ cp_last_len = 2 /\ res.out[1].index = 1
    /\ maybe_checkpoint(1, log, 1).cp
          = Some([length |-> 2, root |-> res.out[1].merkle_root])
    /\ res.out[1].merkle_root # envelope_hash(log[1])
HashesOf(entries, lo, hi) == [k \in 1..(hi - lo + 1) |-> envelope_hash(entries[lo + k - 1])]

\* C40: a MerkleSegmenter with window w >= 1 emits a root on exactly the
\* pushes w, 2w, ..., the root being the duplicate-last Merkle root of the w
\* hashes pushed since the previous emission; its queue is empty after an
\* emission and holds fewer than w hashes between pushes
C40_SegmentEveryWindow ==
    [][(sys = "segmenter" /\ cfg.window >= 1 /\ res'.op = "push") =>
        LET n == Len(log')
            w == cfg.window
        IN /\ (res'.out # None) <=> (n % w = 0)
           /\ res'.out # None =>
                 /\ res'.out = Some(TreeRoot(HashesOf(log', n - w + 1, n)))
                 /\ ring' = <<>>
           /\ res'.out = None => ring' = HashesOf(log', n - (n % w) + 1, n)
           /\ Len(ring) < w /\ Len(ring') < w]_vars

\* a segmenter of window 3 has emitted its second root, on the sixth push,
\* and its queue is empty
C40_Witness ==
    /\ sys = "segmenter" /\ cfg.window = 3 /\ Len(log) = 6
    /\ res.op = "push" /\ res.out # None /\ ring = <<>>
    /\ res.out[1] = H_merkle(H_merkle(envelope_hash(log[4]), envelope_hash(log[5])),
                             H_merkle(envelope_hash(log[6]), envelope_hash(log[6])))
====
